---- MODULE Spec2Model ----
(***************************************************************************)
(* Restaurant review system: the review generator (review_generator.py),   *)
(* the polisher (gemini_polisher.py) and the request handlers of app.py    *)
(* that call them and store Review rows (models.py).                       *)
(*                                                                         *)
(* Text is a sequence of atoms.  An atom is a one-character string for the *)
(* characters the code inspects (whitespace, '.', '!', '?', ',', '{', '}') *)
(* and an indivisible word for every maximal run of other characters.      *)
(***************************************************************************)
EXTENDS Integers, Sequences, FiniteSets, TLC

VARIABLES
    text,        \* finisher harness: the string handed to _enhance_review
    prev,        \* finisher harness: the value of text before the last pass
    passes,      \* finisher harness: number of _enhance_review passes applied
    call,        \* generator harness: the arguments of one generate_review call
    result,      \* generator harness: what that call returned or raised
    banks,       \* generator harness: the phrase banks of the generator object
    restaurants, \* table restaurants: the rows, in id order
    reviews,     \* table reviews: the rows, in id order
    gemini_key,  \* TRUE iff GEMINI_API_KEY is set in the environment
    request,     \* the request handled last: its route and the fields read
    invoked,     \* the generate_review call made by that request, if any
    polish,      \* the polish_review call made by that request, if any
    response,    \* the response to that request
    imports      \* the /api/create-restaurant requests: how far each one got

finisherVars == <<text, prev, passes>>
generatorVars == <<call, result, banks>>
appVars == <<restaurants, reviews, gemini_key, request, invoked, polish, response, imports>>
vars == <<text, prev, passes, call, result, banks,
          restaurants, reviews, gemini_key, request, invoked, polish, response, imports>>

----------------------------------------------------------------------------
(* Bounds *)

MaxLen == 5          \* longest input string of the finisher harness, in atoms
MaxPasses == 3       \* passes of the finisher applied to one input
MaxRating == 6       \* largest rating a caller supplies
MinRating == 0       \* smallest rating a request supplies
MaxReviews == 1      \* rows the reviews table can take
MaxDishLen == 3      \* atoms of a dish name fed to _enhance_dish_description
MaxImports == 2      \* /api/create-restaurant requests, handled concurrently
MaxFeedbackRows == 3 \* rows the reviews table can take in the feedback runs
MaxUpdates == 2      \* UPDATE statements one restaurants row can take

----------------------------------------------------------------------------
(* Characters *)

Whitespace == {" ", "\t"}
TerminalPunct == {".", "!", "?"}

IsSpace(a) == a \in Whitespace

\* ---- begin character tables ----
\* pairs <<a, b>>: str.upper() applied to the first character of a gives b # a
UpperPairs ==
    {
    <<"a", "A">>, <<"about", "About">>, <<"absolutely", "Absolutely">>,
      <<"abuela's", "Abuela's">>, <<"addition", "Addition">>, <<"adds", "Adds">>,
      <<"al", "Al">>, <<"all", "All">>, <<"already", "Already">>, <<"amazing", "Amazing">>,
      <<"ambiance", "Ambiance">>, <<"an", "An">>, <<"and", "And">>, <<"ann@mail", "Ann@mail">>,
      <<"anniversary", "Anniversary">>, <<"another", "Another">>, <<"anyone", "Anyone">>,
      <<"area", "Area">>, <<"aromatics", "Aromatics">>, <<"around", "Around">>, <<"as", "As">>,
      <<"at", "At">>, <<"atmosphere", "Atmosphere">>, <<"attention", "Attention">>,
      <<"authentic", "Authentic">>, <<"auto_sms_enabled", "Auto_sms_enabled">>,
      <<"back", "Back">>, <<"balance", "Balance">>, <<"be", "Be">>, <<"beans", "Beans">>,
      <<"beautifully", "Beautifully">>, <<"best", "Best">>, <<"better", "Better">>,
      <<"bistro", "Bistro">>, <<"bold", "Bold">>, <<"brand_voice", "Brand_voice">>,
      <<"broken-templates", "Broken-templates">>, <<"burger", "Burger">>,
      <<"burgers", "Burgers">>, <<"burrito", "Burrito">>, <<"but", "But">>,
      <<"called", "Called">>, <<"came", "Came">>, <<"casual", "Casual">>,
      <<"certainly", "Certainly">>, <<"charm", "Charm">>, <<"checked", "Checked">>,
      <<"cheese", "Cheese">>, <<"chicken", "Chicken">>, <<"chips", "Chips">>,
      <<"classic", "Classic">>, <<"closing_praise", "Closing_praise">>, <<"come", "Come">>,
      <<"comfort", "Comfort">>, <<"commitment", "Commitment">>, <<"completed", "Completed">>,
      <<"convenient", "Convenient">>, <<"cooked", "Cooked">>, <<"cooking", "Cooking">>,
      <<"corner-cafe", "Corner-cafe">>, <<"crafted", "Crafted">>, <<"creamy", "Creamy">>,
      <<"cuisine", "Cuisine">>, <<"cuisine_praise", "Cuisine_praise">>,
      <<"culinary", "Culinary">>, <<"custom_templates", "Custom_templates">>,
      <<"customer_email", "Customer_email">>, <<"customer_phone", "Customer_phone">>,
      <<"dashboard", "Dashboard">>, <<"data", "Data">>, <<"date", "Date">>,
      <<"definitely", "Definitely">>, <<"delicious", "Delicious">>, <<"delivers", "Delivers">>,
      <<"dente", "Dente">>, <<"detail", "Detail">>, <<"dining", "Dining">>,
      <<"dinner", "Dinner">>, <<"discovered", "Discovered">>, <<"dish", "Dish">>,
      <<"dishes", "Dishes">>, <<"done", "Done">>, <<"downtown", "Downtown">>,
      <<"earned", "Earned">>, <<"easily", "Easily">>, <<"enchiladas", "Enchiladas">>,
      <<"establishment", "Establishment">>, <<"even", "Even">>, <<"evening", "Evening">>,
      <<"every", "Every">>, <<"exceeded", "Exceeded">>, <<"excellence", "Excellence">>,
      <<"exceptional", "Exceptional">>, <<"exceptionally", "Exceptionally">>,
      <<"exists", "Exists">>, <<"expectations", "Expectations">>,
      <<"experience", "Experience">>, <<"expertise", "Expertise">>, <<"expertly", "Expertly">>,
      <<"family", "Family">>, <<"fantastic", "Fantastic">>, <<"fast", "Fast">>,
      <<"fast_casual", "Fast_casual">>, <<"favorite", "Favorite">>,
      <<"favorite_dish", "Favorite_dish">>, <<"fields", "Fields">>, <<"fiesta", "Fiesta">>,
      <<"fine", "Fine">>, <<"five", "Five">>, <<"flair", "Flair">>, <<"flavors", "Flavors">>,
      <<"followup_completed", "Followup_completed">>, <<"fondly", "Fondly">>,
      <<"food", "Food">>, <<"for", "For">>, <<"forward", "Forward">>, <<"found", "Found">>,
      <<"fresh", "Fresh">>, <<"friends", "Friends">>, <<"fries", "Fries">>, <<"gem", "Gem">>,
      <<"generate", "Generate">>, <<"generate-review", "Generate-review">>,
      <<"genuine", "Genuine">>, <<"going", "Going">>, <<"google_place_id", "Google_place_id">>,
      <<"got", "Got">>, <<"great", "Great">>, <<"guacamole", "Guacamole">>,
      <<"guests", "Guests">>, <<"has", "Has">>, <<"hearty", "Hearty">>, <<"hei", "Hei">>,
      <<"herbs", "Herbs">>, <<"here", "Here">>, <<"highest", "Highest">>,
      <<"highlight", "Highlight">>, <<"home", "Home">>, <<"homemade", "Homemade">>,
      <<"honestly", "Honestly">>, <<"house", "House">>, <<"ideal", "Ideal">>,
      <<"idle", "Idle">>, <<"impeccable", "Impeccable">>, <<"impressed", "Impressed">>,
      <<"in", "In">>, <<"incredible", "Incredible">>, <<"ingredients", "Ingredients">>,
      <<"is", "Is">>, <<"it", "It">>, <<"its", "Its">>, <<"joes-diner", "Joes-diner">>,
      <<"just", "Just">>, <<"landscape", "Landscape">>, <<"late", "Late">>,
      <<"le-bistro", "Le-bistro">>, <<"like", "Like">>, <<"loaded", "Loaded">>,
      <<"location", "Location">>, <<"long-table", "Long-table">>, <<"look", "Look">>,
      <<"looking", "Looking">>, <<"lunch", "Lunch">>, <<"made", "Made">>,
      <<"margarita", "Margarita">>, <<"margaritas", "Margaritas">>, <<"marked", "Marked">>,
      <<"massive", "Massive">>, <<"masterfully", "Masterfully">>, <<"me", "Me">>,
      <<"meal", "Meal">>, <<"mock-restaurant-no-api-key", "Mock-restaurant-no-api-key">>,
      <<"more", "More">>, <<"my", "My">>, <<"name", "Name">>, <<"near", "Near">>,
      <<"new", "New">>, <<"next", "Next">>, <<"night", "Night">>, <<"none", "None">>,
      <<"not", "Not">>, <<"nowhere", "Nowhere">>, <<"of", "Of">>, <<"on", "On">>,
      <<"one", "One">>, <<"option", "Option">>, <<"ordered", "Ordered">>, <<"our", "Our">>,
      <<"outstanding", "Outstanding">>, <<"pablos-mexican", "Pablos-mexican">>,
      <<"passion", "Passion">>, <<"pasta", "Pasta">>, <<"pending", "Pending">>,
      <<"perfect", "Perfect">>, <<"perfectly", "Perfectly">>, <<"pizza", "Pizza">>,
      <<"place", "Place">>, <<"place-a", "Place-a">>, <<"place-b", "Place-b">>,
      <<"place-c", "Place-c">>, <<"plain-tacos", "Plain-tacos">>, <<"planning", "Planning">>,
      <<"portions", "Portions">>, <<"premium", "Premium">>, <<"preparation", "Preparation">>,
      <<"prepared", "Prepared">>, <<"presentation", "Presentation">>,
      <<"presented", "Presented">>, <<"private", "Private">>, <<"public", "Public">>,
      <<"quality", "Quality">>, <<"queso", "Queso">>, <<"quick", "Quick">>,
      <<"quiet", "Quiet">>, <<"raised", "Raised">>, <<"rating", "Rating">>,
      <<"readability_score", "Readability_score">>, <<"recipes", "Recipes">>,
      <<"recommend", "Recommend">>, <<"recommendation", "Recommendation">>,
      <<"refreshing", "Refreshing">>, <<"regard", "Regard">>, <<"regular", "Regular">>,
      <<"remember", "Remember">>, <<"representing", "Representing">>,
      <<"required", "Required">>, <<"resolved", "Resolved">>, <<"respond", "Respond">>,
      <<"restaurant", "Restaurant">>, <<"returning", "Returning">>, <<"review", "Review">>,
      <<"rice", "Rice">>, <<"rich", "Rich">>, <<"right", "Right">>, <<"risotto", "Risotto">>,
      <<"romantic", "Romantic">>, <<"rotation", "Rotation">>, <<"salty", "Salty">>,
      <<"sauce", "Sauce">>, <<"seasoning", "Seasoning">>, <<"seeking", "Seeking">>,
      <<"selection", "Selection">>, <<"seo_count", "Seo_count">>,
      <<"seo_keyword_1", "Seo_keyword_1">>, <<"seo_keyword_2", "Seo_keyword_2">>,
      <<"seo_keywords", "Seo_keywords">>, <<"server", "Server">>, <<"serves", "Serves">>,
      <<"service", "Service">>, <<"setting", "Setting">>, <<"settings", "Settings">>,
      <<"showcased", "Showcased">>, <<"side", "Side">>, <<"sing", "Sing">>, <<"slow", "Slow">>,
      <<"sms_delay_hours", "Sms_delay_hours">>, <<"so", "So">>, <<"soon", "Soon">>,
      <<"sophias-italian", "Sophias-italian">>, <<"sophisticated", "Sophisticated">>,
      <<"sour", "Sour">>, <<"specialties", "Specialties">>, <<"spectacular", "Spectacular">>,
      <<"spices", "Spices">>, <<"spicy", "Spicy">>, <<"spot", "Spot">>, <<"spots", "Spots">>,
      <<"stars", "Stars">>, <<"straight", "Straight">>, <<"street", "Street">>,
      <<"submit-review", "Submit-review">>, <<"successfully", "Successfully">>,
      <<"super", "Super">>, <<"sweet", "Sweet">>, <<"system", "System">>,
      <<"taco-stand", "Taco-stand">>, <<"tacos", "Tacos">>, <<"taste", "Taste">>,
      <<"techniques", "Techniques">>, <<"template_used", "Template_used">>,
      <<"templates", "Templates">>, <<"thai-express", "Thai-express">>,
      <<"thai-twins", "Thai-twins">>, <<"that", "That">>, <<"the", "The">>, <<"this", "This">>,
      <<"throughout", "Throughout">>, <<"to", "To">>, <<"totally", "Totally">>,
      <<"traditional", "Traditional">>, <<"transported", "Transported">>, <<"truly", "Truly">>,
      <<"try", "Try">>, <<"updated", "Updated">>, <<"updated_at", "Updated_at">>,
      <<"upscale", "Upscale">>, <<"visit", "Visit">>, <<"wait", "Wait">>, <<"want", "Want">>,
      <<"warm", "Warm">>, <<"was", "Was">>, <<"we", "We">>, <<"weekday", "Weekday">>,
      <<"well", "Well">>, <<"what", "What">>, <<"when", "When">>, <<"will", "Will">>,
      <<"wine", "Wine">>, <<"with", "With">>, <<"wok", "Wok">>, <<"wood-fired", "Wood-fired">>,
      <<"word_count", "Word_count">>, <<"you", "You">>
    }

\* pairs <<a, b>>: a.lower() is b # a
LowerPairs ==
    {
    <<"(No", "(no">>, <<"A", "a">>, <<"API", "api">>, <<"About", "about">>,
      <<"Absolutely", "absolutely">>, <<"Abuela's", "abuela's">>, <<"Addition", "addition">>,
      <<"Adds", "adds">>, <<"Al", "al">>, <<"All", "all">>, <<"Already", "already">>,
      <<"Amazing", "amazing">>, <<"Ambiance", "ambiance">>, <<"American", "american">>,
      <<"An", "an">>, <<"And", "and">>, <<"Ann@mail", "ann@mail">>,
      <<"Anniversary", "anniversary">>, <<"Another", "another">>, <<"Anyone", "anyone">>,
      <<"Area", "area">>, <<"Aromatics", "aromatics">>, <<"Around", "around">>, <<"As", "as">>,
      <<"Ask", "ask">>, <<"At", "at">>, <<"Atmosphere", "atmosphere">>,
      <<"Attention", "attention">>, <<"Authentic", "authentic">>,
      <<"Auto_sms_enabled", "auto_sms_enabled">>, <<"Back", "back">>, <<"Balance", "balance">>,
      <<"Be", "be">>, <<"Beans", "beans">>, <<"Beautifully", "beautifully">>,
      <<"Best", "best">>, <<"Better", "better">>, <<"Bistro", "bistro">>, <<"Bold", "bold">>,
      <<"Brand_voice", "brand_voice">>, <<"Broken-templates", "broken-templates">>,
      <<"Burger", "burger">>, <<"Burgers", "burgers">>, <<"Burrito", "burrito">>,
      <<"But", "but">>, <<"Cafe", "cafe">>, <<"Called", "called">>, <<"Came", "came">>,
      <<"Can't", "can't">>, <<"Cantina", "cantina">>, <<"Capitol", "capitol">>,
      <<"Casual", "casual">>, <<"Certainly", "certainly">>, <<"Charm", "charm">>,
      <<"Checked", "checked">>, <<"Cheese", "cheese">>, <<"Chicken", "chicken">>,
      <<"Chinese", "chinese">>, <<"Chips", "chips">>, <<"Classic", "classic">>,
      <<"Closing_praise", "closing_praise">>, <<"Come", "come">>, <<"Comfort", "comfort">>,
      <<"Commitment", "commitment">>, <<"Completed", "completed">>, <<"Complex", "complex">>,
      <<"Convenient", "convenient">>, <<"Cooked", "cooked">>, <<"Cooking", "cooking">>,
      <<"Corner", "corner">>, <<"Corner-cafe", "corner-cafe">>, <<"Crafted", "crafted">>,
      <<"Creamy", "creamy">>, <<"Cuisine", "cuisine">>, <<"Cuisine_praise", "cuisine_praise">>,
      <<"Culinary", "culinary">>, <<"Custom_templates", "custom_templates">>,
      <<"Customer_email", "customer_email">>, <<"Customer_phone", "customer_phone">>,
      <<"Dashboard", "dashboard">>, <<"Data", "data">>, <<"Date", "date">>,
      <<"Definitely", "definitely">>, <<"Delicious", "delicious">>, <<"Delivers", "delivers">>,
      <<"Dente", "dente">>, <<"Detail", "detail">>, <<"Diner", "diner">>,
      <<"Dining", "dining">>, <<"Dinner", "dinner">>, <<"Discovered", "discovered">>,
      <<"Dish", "dish">>, <<"Dishes", "dishes">>, <<"Done", "done">>,
      <<"Downtown", "downtown">>, <<"Earned", "earned">>, <<"Easily", "easily">>,
      <<"Enchiladas", "enchiladas">>, <<"Establishment", "establishment">>, <<"Even", "even">>,
      <<"Evening", "evening">>, <<"Every", "every">>, <<"Exactly", "exactly">>,
      <<"Exceeded", "exceeded">>, <<"Excellence", "excellence">>, <<"Exception", "exception">>,
      <<"Exceptional", "exceptional">>, <<"Exceptionally", "exceptionally">>,
      <<"Exists", "exists">>, <<"Expectations", "expectations">>,
      <<"Experience", "experience">>, <<"Expertise", "expertise">>, <<"Expertly", "expertly">>,
      <<"Express", "express">>, <<"Failed", "failed">>, <<"Family", "family">>,
      <<"Fantastic", "fantastic">>, <<"Fast", "fast">>, <<"Fast_casual", "fast_casual">>,
      <<"Favorite", "favorite">>, <<"Favorite_dish", "favorite_dish">>,
      <<"Feedback", "feedback">>, <<"Fields", "fields">>, <<"Fiesta", "fiesta">>,
      <<"Fine", "fine">>, <<"Fish", "fish">>, <<"Five", "five">>, <<"Flair", "flair">>,
      <<"Flavors", "flavors">>, <<"Followup_completed", "followup_completed">>,
      <<"Fondly", "fondly">>, <<"Food", "food">>, <<"For", "for">>, <<"Forward", "forward">>,
      <<"Found", "found">>, <<"Fresh", "fresh">>, <<"Friends", "friends">>,
      <<"Fries", "fries">>, <<"Fusion", "fusion">>, <<"Gem", "gem">>,
      <<"Generate", "generate">>, <<"Generate-review", "generate-review">>,
      <<"Genuine", "genuine">>, <<"Going", "going">>, <<"Good", "good">>,
      <<"Google_place_id", "google_place_id">>, <<"Got", "got">>, <<"Great", "great">>,
      <<"Guacamole", "guacamole">>, <<"Guests", "guests">>, <<"Had", "had">>, <<"Has", "has">>,
      <<"Hearty", "hearty">>, <<"Hei", "hei">>, <<"Herbs", "herbs">>, <<"Here", "here">>,
      <<"Highest", "highest">>, <<"Highlight", "highlight">>, <<"Highly", "highly">>,
      <<"Hill", "hill">>, <<"Home", "home">>, <<"Homemade", "homemade">>,
      <<"Honestly", "honestly">>, <<"House", "house">>, <<"I", "i">>, <<"I'm", "i'm">>,
      <<"Ideal", "ideal">>, <<"Idle", "idle">>, <<"Impeccable", "impeccable">>,
      <<"Impressed", "impressed">>, <<"In", "in">>, <<"Incredible", "incredible">>,
      <<"Ingredients", "ingredients">>, <<"IntegrityError", "integrityerror">>,
      <<"Invalid", "invalid">>, <<"InvalidRating", "invalidrating">>, <<"Is", "is">>,
      <<"It", "it">>, <<"Italian", "italian">>, <<"Its", "its">>, <<"Joe's", "joe's">>,
      <<"Joes-diner", "joes-diner">>, <<"Just", "just">>, <<"Key)", "key)">>,
      <<"KeyError", "keyerror">>, <<"Landscape", "landscape">>, <<"Late", "late">>,
      <<"Le", "le">>, <<"Le-bistro", "le-bistro">>, <<"Like", "like">>, <<"Loaded", "loaded">>,
      <<"Local", "local">>, <<"Location", "location">>, <<"Long-table", "long-table">>,
      <<"Look", "look">>, <<"Looking", "looking">>, <<"Loved", "loved">>, <<"Lunch", "lunch">>,
      <<"Made", "made">>, <<"Margarita", "margarita">>, <<"Margaritas", "margaritas">>,
      <<"Marked", "marked">>, <<"Massive", "massive">>, <<"Masterfully", "masterfully">>,
      <<"Me", "me">>, <<"Meal", "meal">>, <<"Mexican", "mexican">>, <<"Mexico", "mexico">>,
      <<"Midtown", "midtown">>, <<"Missing", "missing">>, <<"Mock", "mock">>,
      <<"Mock-restaurant-no-api-key", "mock-restaurant-no-api-key">>, <<"More", "more">>,
      <<"My", "my">>, <<"Name", "name">>, <<"Near", "near">>, <<"New", "new">>,
      <<"Next", "next">>, <<"Nice", "nice">>, <<"Night", "night">>, <<"None", "none">>,
      <<"Not", "not">>, <<"Nowhere", "nowhere">>, <<"Of", "of">>, <<"On", "on">>,
      <<"One", "one">>, <<"Option", "option">>, <<"Ordered", "ordered">>, <<"Our", "our">>,
      <<"Outstanding", "outstanding">>, <<"Pablo's", "pablo's">>,
      <<"Pablos-mexican", "pablos-mexican">>, <<"Passion", "passion">>, <<"Pasta", "pasta">>,
      <<"Pending", "pending">>, <<"Perfect", "perfect">>, <<"Perfectly", "perfectly">>,
      <<"Pizza", "pizza">>, <<"Place", "place">>, <<"Place-a", "place-a">>,
      <<"Place-b", "place-b">>, <<"Place-c", "place-c">>, <<"Plain-tacos", "plain-tacos">>,
      <<"Planning", "planning">>, <<"Portions", "portions">>, <<"Premium", "premium">>,
      <<"Preparation", "preparation">>, <<"Prepared", "prepared">>,
      <<"Presentation", "presentation">>, <<"Presented", "presented">>,
      <<"Private", "private">>, <<"Public", "public">>, <<"Quality", "quality">>,
      <<"Queso", "queso">>, <<"Quick", "quick">>, <<"Quiet", "quiet">>, <<"Raised", "raised">>,
      <<"Rating", "rating">>, <<"Readability_score", "readability_score">>,
      <<"Really", "really">>, <<"Recipes", "recipes">>, <<"Recommend", "recommend">>,
      <<"Recommendation", "recommendation">>, <<"Refreshing", "refreshing">>,
      <<"Regard", "regard">>, <<"Regular", "regular">>, <<"Remarkable", "remarkable">>,
      <<"Remember", "remember">>, <<"Representing", "representing">>,
      <<"Required", "required">>, <<"Resolved", "resolved">>, <<"Respond", "respond">>,
      <<"Restaurant", "restaurant">>, <<"Returning", "returning">>, <<"Review", "review">>,
      <<"Rice", "rice">>, <<"Rich", "rich">>, <<"Right", "right">>, <<"Risotto", "risotto">>,
      <<"Romantic", "romantic">>, <<"Rotation", "rotation">>, <<"Salty", "salty">>,
      <<"Sauce", "sauce">>, <<"Seasoning", "seasoning">>, <<"Seattle", "seattle">>,
      <<"Seeking", "seeking">>, <<"Selection", "selection">>, <<"Sent", "sent">>,
      <<"Seo_count", "seo_count">>, <<"Seo_keyword_1", "seo_keyword_1">>,
      <<"Seo_keyword_2", "seo_keyword_2">>, <<"Seo_keywords", "seo_keywords">>,
      <<"Server", "server">>, <<"Serves", "serves">>, <<"Service", "service">>,
      <<"Setting", "setting">>, <<"Settings", "settings">>, <<"Showcased", "showcased">>,
      <<"Side", "side">>, <<"Sing", "sing">>, <<"Slow", "slow">>,
      <<"Sms_delay_hours", "sms_delay_hours">>, <<"So", "so">>, <<"Soon", "soon">>,
      <<"Sophia's", "sophia's">>, <<"Sophias-italian", "sophias-italian">>,
      <<"Sophisticated", "sophisticated">>, <<"Sour", "sour">>,
      <<"Specialties", "specialties">>, <<"Spectacular", "spectacular">>,
      <<"Spices", "spices">>, <<"Spicy", "spicy">>, <<"Spot", "spot">>, <<"Spots", "spots">>,
      <<"Stand", "stand">>, <<"Stars", "stars">>, <<"Straight", "straight">>,
      <<"Street", "street">>, <<"Submit-review", "submit-review">>,
      <<"Successfully", "successfully">>, <<"Super", "super">>, <<"Sweet", "sweet">>,
      <<"System", "system">>, <<"TACO", "taco">>, <<"Taco", "taco">>,
      <<"Taco-stand", "taco-stand">>, <<"Tacos", "tacos">>, <<"Taste", "taste">>,
      <<"Techniques", "techniques">>, <<"Telling", "telling">>,
      <<"Template_used", "template_used">>, <<"Templates", "templates">>, <<"Thai", "thai">>,
      <<"Thai-express", "thai-express">>, <<"Thai-twins", "thai-twins">>, <<"Thank", "thank">>,
      <<"That", "that">>, <<"The", "the">>, <<"This", "this">>, <<"Throughout", "throughout">>,
      <<"To", "to">>, <<"Totally", "totally">>, <<"Traditional", "traditional">>,
      <<"Transported", "transported">>, <<"Truly", "truly">>, <<"Try", "try">>,
      <<"Tuesday", "tuesday">>, <<"Tuscany", "tuscany">>, <<"Updated", "updated">>,
      <<"Updated_at", "updated_at">>, <<"Upscale", "upscale">>, <<"Uptown", "uptown">>,
      <<"ValueError", "valueerror">>, <<"Visit", "visit">>, <<"Wait", "wait">>,
      <<"Want", "want">>, <<"Warm", "warm">>, <<"Was", "was">>, <<"We", "we">>,
      <<"Weekday", "weekday">>, <<"Well", "well">>, <<"What", "what">>, <<"When", "when">>,
      <<"Will", "will">>, <<"Wine", "wine">>, <<"With", "with">>, <<"Wok", "wok">>,
      <<"Wonderful", "wonderful">>, <<"Wood-fired", "wood-fired">>,
      <<"Word_count", "word_count">>, <<"Wow", "wow">>, <<"You", "you">>,
      <<"¡Increíble", "¡increíble">>
    }

\* pairs <<a, b>> of distinct atoms with a a substring of b
ProperInfix ==
    {
    <<"-", "-star">>, <<"-", "555-0100">>, <<"-", "Broken-templates">>, <<"-", "Corner-cafe">>,
      <<"-", "Generate-review">>, <<"-", "Joes-diner">>, <<"-", "Le-bistro">>,
      <<"-", "Long-table">>, <<"-", "Mock-restaurant-no-api-key">>, <<"-", "Pablos-mexican">>,
      <<"-", "Place-a">>, <<"-", "Place-b">>, <<"-", "Place-c">>, <<"-", "Plain-tacos">>,
      <<"-", "Sophias-italian">>, <<"-", "Submit-review">>, <<"-", "Taco-stand">>,
      <<"-", "Thai-express">>, <<"-", "Thai-twins">>, <<"-", "Wood-fired">>,
      <<"-", "broken-templates">>, <<"-", "corner-cafe">>, <<"-", "generate-review">>,
      <<"-", "joes-diner">>, <<"-", "le-bistro">>, <<"-", "long-table">>,
      <<"-", "mock-restaurant-no-api-key">>, <<"-", "pablos-mexican">>, <<"-", "place-a">>,
      <<"-", "place-b">>, <<"-", "place-c">>, <<"-", "plain-tacos">>,
      <<"-", "sophias-italian">>, <<"-", "submit-review">>, <<"-", "taco-stand">>,
      <<"-", "thai-express">>, <<"-", "thai-twins">>, <<"-", "wood-fired">>,
      <<"5", "555-0100">>, <<"@", "Ann@mail">>, <<"@", "ann@mail">>, <<"A", "API">>,
      <<"A", "About">>, <<"A", "Absolutely">>, <<"A", "Abuela's">>, <<"A", "Addition">>,
      <<"A", "Adds">>, <<"A", "Al">>, <<"A", "All">>, <<"A", "Already">>, <<"A", "Amazing">>,
      <<"A", "Ambiance">>, <<"A", "American">>, <<"A", "An">>, <<"A", "And">>,
      <<"A", "Ann@mail">>, <<"A", "Anniversary">>, <<"A", "Another">>, <<"A", "Anyone">>,
      <<"A", "Area">>, <<"A", "Aromatics">>, <<"A", "Around">>, <<"A", "As">>, <<"A", "Ask">>,
      <<"A", "At">>, <<"A", "Atmosphere">>, <<"A", "Attention">>, <<"A", "Authentic">>,
      <<"A", "Auto_sms_enabled">>, <<"A", "TACO">>, <<"Al", "All">>, <<"Al", "Already">>,
      <<"An", "And">>, <<"An", "Ann@mail">>, <<"An", "Anniversary">>, <<"An", "Another">>,
      <<"An", "Anyone">>, <<"As", "Ask">>, <<"At", "Atmosphere">>, <<"At", "Attention">>,
      <<"Be", "Beans">>, <<"Be", "Beautifully">>, <<"Be", "Best">>, <<"Be", "Better">>,
      <<"Burger", "Burgers">>, <<"Corner", "Corner-cafe">>, <<"Cuisine", "Cuisine_praise">>,
      <<"Dish", "Dishes">>, <<"Even", "Evening">>, <<"Exception", "Exceptional">>,
      <<"Exception", "Exceptionally">>, <<"Exceptional", "Exceptionally">>,
      <<"Fast", "Fast_casual">>, <<"Favorite", "Favorite_dish">>, <<"For", "Forward">>,
      <<"Generate", "Generate-review">>, <<"Home", "Homemade">>, <<"I", "API">>,
      <<"I", "I'm">>, <<"I", "Ideal">>, <<"I", "Idle">>, <<"I", "Impeccable">>,
      <<"I", "Impressed">>, <<"I", "In">>, <<"I", "Incredible">>, <<"I", "Ingredients">>,
      <<"I", "IntegrityError">>, <<"I", "Invalid">>, <<"I", "InvalidRating">>, <<"I", "Is">>,
      <<"I", "It">>, <<"I", "Italian">>, <<"I", "Its">>, <<"I", "¡Increíble">>,
      <<"In", "Incredible">>, <<"In", "Ingredients">>, <<"In", "IntegrityError">>,
      <<"In", "Invalid">>, <<"In", "InvalidRating">>, <<"In", "¡Increíble">>,
      <<"Invalid", "InvalidRating">>, <<"It", "Italian">>, <<"It", "Its">>,
      <<"Le", "Le-bistro">>, <<"Look", "Looking">>, <<"Margarita", "Margaritas">>,
      <<"Me", "Meal">>, <<"Me", "Mexican">>, <<"Me", "Mexico">>,
      <<"Mock", "Mock-restaurant-no-api-key">>, <<"On", "One">>, <<"Perfect", "Perfectly">>,
      <<"Place", "Place-a">>, <<"Place", "Place-b">>, <<"Place", "Place-c">>,
      <<"Rating", "InvalidRating">>, <<"Recommend", "Recommendation">>,
      <<"Setting", "Settings">>, <<"So", "Soon">>, <<"So", "Sophia's">>,
      <<"So", "Sophias-italian">>, <<"So", "Sophisticated">>, <<"So", "Sour">>,
      <<"Spot", "Spots">>, <<"Taco", "Taco-stand">>, <<"Taco", "Tacos">>,
      <<"Thai", "Thai-express">>, <<"Thai", "Thai-twins">>, <<"To", "Totally">>,
      <<"Updated", "Updated_at">>, <<"We", "Weekday">>, <<"We", "Well">>, <<"a", "-star">>,
      <<"a", "Abuela's">>, <<"a", "Already">>, <<"a", "Amazing">>, <<"a", "Ambiance">>,
      <<"a", "American">>, <<"a", "Ann@mail">>, <<"a", "Anniversary">>, <<"a", "Area">>,
      <<"a", "Aromatics">>, <<"a", "Auto_sms_enabled">>, <<"a", "Back">>, <<"a", "Balance">>,
      <<"a", "Beans">>, <<"a", "Beautifully">>, <<"a", "Brand_voice">>,
      <<"a", "Broken-templates">>, <<"a", "Cafe">>, <<"a", "Called">>, <<"a", "Came">>,
      <<"a", "Can't">>, <<"a", "Cantina">>, <<"a", "Capitol">>, <<"a", "Casual">>,
      <<"a", "Certainly">>, <<"a", "Charm">>, <<"a", "Classic">>, <<"a", "Closing_praise">>,
      <<"a", "Corner-cafe">>, <<"a", "Crafted">>, <<"a", "Creamy">>, <<"a", "Cuisine_praise">>,
      <<"a", "Culinary">>, <<"a", "Custom_templates">>, <<"a", "Customer_email">>,
      <<"a", "Dashboard">>, <<"a", "Data">>, <<"a", "Date">>, <<"a", "Detail">>,
      <<"a", "Earned">>, <<"a", "Easily">>, <<"a", "Enchiladas">>, <<"a", "Establishment">>,
      <<"a", "Exactly">>, <<"a", "Exceptional">>, <<"a", "Exceptionally">>,
      <<"a", "Expectations">>, <<"a", "Failed">>, <<"a", "Family">>, <<"a", "Fantastic">>,
      <<"a", "Fast">>, <<"a", "Fast_casual">>, <<"a", "Favorite">>, <<"a", "Favorite_dish">>,
      <<"a", "Feedback">>, <<"a", "Fiesta">>, <<"a", "Flair">>, <<"a", "Flavors">>,
      <<"a", "Forward">>, <<"a", "Generate">>, <<"a", "Generate-review">>,
      <<"a", "Google_place_id">>, <<"a", "Great">>, <<"a", "Guacamole">>, <<"a", "Had">>,
      <<"a", "Has">>, <<"a", "Hearty">>, <<"a", "Homemade">>, <<"a", "Ideal">>,
      <<"a", "Impeccable">>, <<"a", "Invalid">>, <<"a", "InvalidRating">>, <<"a", "Italian">>,
      <<"a", "Landscape">>, <<"a", "Late">>, <<"a", "Loaded">>, <<"a", "Local">>,
      <<"a", "Location">>, <<"a", "Long-table">>, <<"a", "Made">>, <<"a", "Margarita">>,
      <<"a", "Margaritas">>, <<"a", "Marked">>, <<"a", "Massive">>, <<"a", "Masterfully">>,
      <<"a", "Meal">>, <<"a", "Mexican">>, <<"a", "Mock-restaurant-no-api-key">>,
      <<"a", "Name">>, <<"a", "Near">>, <<"a", "Outstanding">>, <<"a", "Pablo's">>,
      <<"a", "Pablos-mexican">>, <<"a", "Passion">>, <<"a", "Pasta">>, <<"a", "Pizza">>,
      <<"a", "Place">>, <<"a", "Place-a">>, <<"a", "Place-b">>, <<"a", "Place-c">>,
      <<"a", "Plain-tacos">>, <<"a", "Planning">>, <<"a", "Preparation">>, <<"a", "Prepared">>,
      <<"a", "Presentation">>, <<"a", "Private">>, <<"a", "Quality">>, <<"a", "Raised">>,
      <<"a", "Rating">>, <<"a", "Readability_score">>, <<"a", "Really">>,
      <<"a", "Recommendation">>, <<"a", "Regard">>, <<"a", "Regular">>, <<"a", "Remarkable">>,
      <<"a", "Restaurant">>, <<"a", "Romantic">>, <<"a", "Rotation">>, <<"a", "Salty">>,
      <<"a", "Sauce">>, <<"a", "Seasoning">>, <<"a", "Seattle">>, <<"a", "Showcased">>,
      <<"a", "Sms_delay_hours">>, <<"a", "Sophia's">>, <<"a", "Sophias-italian">>,
      <<"a", "Sophisticated">>, <<"a", "Specialties">>, <<"a", "Spectacular">>,
      <<"a", "Stand">>, <<"a", "Stars">>, <<"a", "Straight">>, <<"a", "Taco">>,
      <<"a", "Taco-stand">>, <<"a", "Tacos">>, <<"a", "Taste">>, <<"a", "Template_used">>,
      <<"a", "Templates">>, <<"a", "Thai">>, <<"a", "Thai-express">>, <<"a", "Thai-twins">>,
      <<"a", "Thank">>, <<"a", "That">>, <<"a", "Totally">>, <<"a", "Traditional">>,
      <<"a", "Transported">>, <<"a", "Tuesday">>, <<"a", "Tuscany">>, <<"a", "Updated">>,
      <<"a", "Updated_at">>, <<"a", "Upscale">>, <<"a", "ValueError">>, <<"a", "Wait">>,
      <<"a", "Want">>, <<"a", "Warm">>, <<"a", "Was">>, <<"a", "Weekday">>, <<"a", "What">>,
      <<"a", "about">>, <<"a", "absolutely">>, <<"a", "abuela's">>, <<"a", "addition">>,
      <<"a", "adds">>, <<"a", "al">>, <<"a", "all">>, <<"a", "already">>, <<"a", "amazing">>,
      <<"a", "ambiance">>, <<"a", "american">>, <<"a", "an">>, <<"a", "and">>,
      <<"a", "ann@mail">>, <<"a", "anniversary">>, <<"a", "another">>, <<"a", "anyone">>,
      <<"a", "api">>, <<"a", "area">>, <<"a", "aromatics">>, <<"a", "around">>, <<"a", "as">>,
      <<"a", "ask">>, <<"a", "at">>, <<"a", "atmosphere">>, <<"a", "attention">>,
      <<"a", "authentic">>, <<"a", "auto_sms_enabled">>, <<"a", "back">>, <<"a", "balance">>,
      <<"a", "beans">>, <<"a", "beautifully">>, <<"a", "brand_voice">>,
      <<"a", "broken-templates">>, <<"a", "cafe">>, <<"a", "called">>, <<"a", "came">>,
      <<"a", "can't">>, <<"a", "cantina">>, <<"a", "capitol">>, <<"a", "casual">>,
      <<"a", "certainly">>, <<"a", "charm">>, <<"a", "classic">>, <<"a", "closing_praise">>,
      <<"a", "corner-cafe">>, <<"a", "crafted">>, <<"a", "creamy">>, <<"a", "cuisine_praise">>,
      <<"a", "culinary">>, <<"a", "custom_templates">>, <<"a", "customer_email">>,
      <<"a", "dashboard">>, <<"a", "data">>, <<"a", "date">>, <<"a", "detail">>,
      <<"a", "earned">>, <<"a", "easily">>, <<"a", "enchiladas">>, <<"a", "establishment">>,
      <<"a", "exactly">>, <<"a", "exceptional">>, <<"a", "exceptionally">>,
      <<"a", "expectations">>, <<"a", "failed">>, <<"a", "family">>, <<"a", "fantastic">>,
      <<"a", "fast">>, <<"a", "fast_casual">>, <<"a", "favorite">>, <<"a", "favorite_dish">>,
      <<"a", "feedback">>, <<"a", "fiesta">>, <<"a", "flair">>, <<"a", "flavors">>,
      <<"a", "forward">>, <<"a", "generate">>, <<"a", "generate-review">>,
      <<"a", "google_place_id">>, <<"a", "great">>, <<"a", "guacamole">>, <<"a", "had">>,
      <<"a", "has">>, <<"a", "hearty">>, <<"a", "homemade">>, <<"a", "ideal">>,
      <<"a", "impeccable">>, <<"a", "invalid">>, <<"a", "invalidrating">>, <<"a", "italian">>,
      <<"a", "landscape">>, <<"a", "late">>, <<"a", "loaded">>, <<"a", "local">>,
      <<"a", "location">>, <<"a", "long-table">>, <<"a", "made">>, <<"a", "margarita">>,
      <<"a", "margaritas">>, <<"a", "marked">>, <<"a", "massive">>, <<"a", "masterfully">>,
      <<"a", "meal">>, <<"a", "mexican">>, <<"a", "mock-restaurant-no-api-key">>,
      <<"a", "name">>, <<"a", "near">>, <<"a", "outstanding">>, <<"a", "pablo's">>,
      <<"a", "pablos-mexican">>, <<"a", "passion">>, <<"a", "pasta">>, <<"a", "pizza">>,
      <<"a", "place">>, <<"a", "place-a">>, <<"a", "place-b">>, <<"a", "place-c">>,
      <<"a", "plain-tacos">>, <<"a", "planning">>, <<"a", "preparation">>, <<"a", "prepared">>,
      <<"a", "presentation">>, <<"a", "private">>, <<"a", "quality">>, <<"a", "raised">>,
      <<"a", "rating">>, <<"a", "readability_score">>, <<"a", "really">>,
      <<"a", "recommendation">>, <<"a", "regard">>, <<"a", "regular">>, <<"a", "remarkable">>,
      <<"a", "restaurant">>, <<"a", "romantic">>, <<"a", "rotation">>, <<"a", "salty">>,
      <<"a", "sauce">>, <<"a", "seasoning">>, <<"a", "seattle">>, <<"a", "showcased">>,
      <<"a", "sms_delay_hours">>, <<"a", "sophia's">>, <<"a", "sophias-italian">>,
      <<"a", "sophisticated">>, <<"a", "specialties">>, <<"a", "spectacular">>,
      <<"a", "stand">>, <<"a", "stars">>, <<"a", "straight">>, <<"a", "taco">>,
      <<"a", "taco-stand">>, <<"a", "tacos">>, <<"a", "taste">>, <<"a", "template_used">>,
      <<"a", "templates">>, <<"a", "thai">>, <<"a", "thai-express">>, <<"a", "thai-twins">>,
      <<"a", "thank">>, <<"a", "that">>, <<"a", "totally">>, <<"a", "traditional">>,
      <<"a", "transported">>, <<"a", "tuesday">>, <<"a", "tuscany">>, <<"a", "updated">>,
      <<"a", "updated_at">>, <<"a", "upscale">>, <<"a", "valueerror">>, <<"a", "wait">>,
      <<"a", "want">>, <<"a", "warm">>, <<"a", "was">>, <<"a", "weekday">>, <<"a", "what">>,
      <<"al", "Balance">>, <<"al", "Called">>, <<"al", "Casual">>, <<"al", "Exceptional">>,
      <<"al", "Exceptionally">>, <<"al", "Fast_casual">>, <<"al", "Ideal">>,
      <<"al", "Invalid">>, <<"al", "InvalidRating">>, <<"al", "Italian">>, <<"al", "Local">>,
      <<"al", "Meal">>, <<"al", "Quality">>, <<"al", "Really">>, <<"al", "Salty">>,
      <<"al", "Sophias-italian">>, <<"al", "Specialties">>, <<"al", "Totally">>,
      <<"al", "Traditional">>, <<"al", "Upscale">>, <<"al", "ValueError">>, <<"al", "all">>,
      <<"al", "already">>, <<"al", "balance">>, <<"al", "called">>, <<"al", "casual">>,
      <<"al", "exceptional">>, <<"al", "exceptionally">>, <<"al", "fast_casual">>,
      <<"al", "ideal">>, <<"al", "invalid">>, <<"al", "invalidrating">>, <<"al", "italian">>,
      <<"al", "local">>, <<"al", "meal">>, <<"al", "quality">>, <<"al", "really">>,
      <<"al", "salty">>, <<"al", "sophias-italian">>, <<"al", "specialties">>,
      <<"al", "totally">>, <<"al", "traditional">>, <<"al", "upscale">>,
      <<"al", "valueerror">>, <<"all", "Called">>, <<"all", "Exceptionally">>,
      <<"all", "Really">>, <<"all", "Totally">>, <<"all", "called">>,
      <<"all", "exceptionally">>, <<"all", "really">>, <<"all", "totally">>,
      <<"an", "Ambiance">>, <<"an", "American">>, <<"an", "Balance">>, <<"an", "Beans">>,
      <<"an", "Brand_voice">>, <<"an", "Can't">>, <<"an", "Cantina">>, <<"an", "Fantastic">>,
      <<"an", "Italian">>, <<"an", "Landscape">>, <<"an", "Mexican">>,
      <<"an", "Mock-restaurant-no-api-key">>, <<"an", "Outstanding">>,
      <<"an", "Pablos-mexican">>, <<"an", "Planning">>, <<"an", "Restaurant">>,
      <<"an", "Romantic">>, <<"an", "Sophias-italian">>, <<"an", "Stand">>,
      <<"an", "Taco-stand">>, <<"an", "Thank">>, <<"an", "Transported">>, <<"an", "Tuscany">>,
      <<"an", "Want">>, <<"an", "ambiance">>, <<"an", "american">>, <<"an", "and">>,
      <<"an", "ann@mail">>, <<"an", "anniversary">>, <<"an", "another">>, <<"an", "anyone">>,
      <<"an", "balance">>, <<"an", "beans">>, <<"an", "brand_voice">>, <<"an", "can't">>,
      <<"an", "cantina">>, <<"an", "fantastic">>, <<"an", "italian">>, <<"an", "landscape">>,
      <<"an", "mexican">>, <<"an", "mock-restaurant-no-api-key">>, <<"an", "outstanding">>,
      <<"an", "pablos-mexican">>, <<"an", "planning">>, <<"an", "restaurant">>,
      <<"an", "romantic">>, <<"an", "sophias-italian">>, <<"an", "stand">>,
      <<"an", "taco-stand">>, <<"an", "thank">>, <<"an", "transported">>, <<"an", "tuscany">>,
      <<"an", "want">>, <<"and", "Brand_voice">>, <<"and", "Landscape">>,
      <<"and", "Outstanding">>, <<"and", "Stand">>, <<"and", "Taco-stand">>,
      <<"and", "brand_voice">>, <<"and", "landscape">>, <<"and", "outstanding">>,
      <<"and", "stand">>, <<"and", "taco-stand">>, <<"api", "Capitol">>,
      <<"api", "Mock-restaurant-no-api-key">>, <<"api", "capitol">>,
      <<"api", "mock-restaurant-no-api-key">>, <<"as", "Casual">>, <<"as", "Classic">>,
      <<"as", "Dashboard">>, <<"as", "Easily">>, <<"as", "Enchiladas">>, <<"as", "Fantastic">>,
      <<"as", "Fast">>, <<"as", "Fast_casual">>, <<"as", "Has">>, <<"as", "Margaritas">>,
      <<"as", "Massive">>, <<"as", "Masterfully">>, <<"as", "Passion">>, <<"as", "Pasta">>,
      <<"as", "Seasoning">>, <<"as", "Showcased">>, <<"as", "Sophias-italian">>,
      <<"as", "Taste">>, <<"as", "Was">>, <<"as", "ask">>, <<"as", "casual">>,
      <<"as", "classic">>, <<"as", "dashboard">>, <<"as", "easily">>, <<"as", "enchiladas">>,
      <<"as", "fantastic">>, <<"as", "fast">>, <<"as", "fast_casual">>, <<"as", "has">>,
      <<"as", "margaritas">>, <<"as", "massive">>, <<"as", "masterfully">>,
      <<"as", "passion">>, <<"as", "pasta">>, <<"as", "seasoning">>, <<"as", "showcased">>,
      <<"as", "sophias-italian">>, <<"as", "taste">>, <<"as", "was">>, <<"at", "Aromatics">>,
      <<"at", "Broken-templates">>, <<"at", "Custom_templates">>, <<"at", "Data">>,
      <<"at", "Date">>, <<"at", "Expectations">>, <<"at", "Generate">>,
      <<"at", "Generate-review">>, <<"at", "Great">>, <<"at", "InvalidRating">>,
      <<"at", "Late">>, <<"at", "Location">>, <<"at", "Preparation">>,
      <<"at", "Presentation">>, <<"at", "Private">>, <<"at", "Rating">>,
      <<"at", "Recommendation">>, <<"at", "Rotation">>, <<"at", "Seattle">>,
      <<"at", "Sophisticated">>, <<"at", "Template_used">>, <<"at", "Templates">>,
      <<"at", "That">>, <<"at", "Updated">>, <<"at", "Updated_at">>, <<"at", "What">>,
      <<"at", "aromatics">>, <<"at", "atmosphere">>, <<"at", "attention">>,
      <<"at", "broken-templates">>, <<"at", "custom_templates">>, <<"at", "data">>,
      <<"at", "date">>, <<"at", "expectations">>, <<"at", "generate">>,
      <<"at", "generate-review">>, <<"at", "great">>, <<"at", "invalidrating">>,
      <<"at", "late">>, <<"at", "location">>, <<"at", "preparation">>,
      <<"at", "presentation">>, <<"at", "private">>, <<"at", "rating">>,
      <<"at", "recommendation">>, <<"at", "rotation">>, <<"at", "seattle">>,
      <<"at", "sophisticated">>, <<"at", "template_used">>, <<"at", "templates">>,
      <<"at", "that">>, <<"at", "updated">>, <<"at", "updated_at">>, <<"at", "what">>,
      <<"back", "Feedback">>, <<"back", "feedback">>, <<"be", "Remember">>, <<"be", "beans">>,
      <<"be", "beautifully">>, <<"be", "best">>, <<"be", "better">>, <<"be", "remember">>,
      <<"bistro", "Le-bistro">>, <<"bistro", "le-bistro">>, <<"burger", "burgers">>,
      <<"cafe", "Corner-cafe">>, <<"cafe", "corner-cafe">>, <<"casual", "Fast_casual">>,
      <<"casual", "fast_casual">>, <<"completed", "Followup_completed">>,
      <<"completed", "followup_completed">>, <<"corner", "corner-cafe">>,
      <<"cuisine", "cuisine_praise">>, <<"date", "Updated">>, <<"date", "Updated_at">>,
      <<"date", "updated">>, <<"date", "updated_at">>, <<"diner", "Joes-diner">>,
      <<"diner", "joes-diner">>, <<"dish", "Favorite_dish">>, <<"dish", "dishes">>,
      <<"dish", "favorite_dish">>, <<"even", "evening">>, <<"exception", "exceptional">>,
      <<"exception", "exceptionally">>, <<"exceptional", "exceptionally">>,
      <<"express", "Thai-express">>, <<"express", "thai-express">>, <<"fast", "fast_casual">>,
      <<"favorite", "favorite_dish">>, <<"for", "Comfort">>, <<"for", "comfort">>,
      <<"for", "forward">>, <<"fresh", "Refreshing">>, <<"fresh", "refreshing">>,
      <<"generate", "generate-review">>, <<"here", "Atmosphere">>, <<"here", "Nowhere">>,
      <<"here", "atmosphere">>, <<"here", "nowhere">>, <<"home", "homemade">>,
      <<"i", "Addition">>, <<"i", "Amazing">>, <<"i", "Ambiance">>, <<"i", "American">>,
      <<"i", "Ann@mail">>, <<"i", "Anniversary">>, <<"i", "Aromatics">>, <<"i", "Attention">>,
      <<"i", "Authentic">>, <<"i", "Beautifully">>, <<"i", "Bistro">>, <<"i", "Brand_voice">>,
      <<"i", "Burrito">>, <<"i", "Cantina">>, <<"i", "Capitol">>, <<"i", "Certainly">>,
      <<"i", "Chicken">>, <<"i", "Chinese">>, <<"i", "Chips">>, <<"i", "Classic">>,
      <<"i", "Closing_praise">>, <<"i", "Commitment">>, <<"i", "Convenient">>,
      <<"i", "Cooking">>, <<"i", "Cuisine">>, <<"i", "Cuisine_praise">>, <<"i", "Culinary">>,
      <<"i", "Customer_email">>, <<"i", "Definitely">>, <<"i", "Delicious">>,
      <<"i", "Delivers">>, <<"i", "Detail">>, <<"i", "Diner">>, <<"i", "Dining">>,
      <<"i", "Dinner">>, <<"i", "Discovered">>, <<"i", "Dish">>, <<"i", "Dishes">>,
      <<"i", "Easily">>, <<"i", "Enchiladas">>, <<"i", "Establishment">>, <<"i", "Evening">>,
      <<"i", "Exception">>, <<"i", "Exceptional">>, <<"i", "Exceptionally">>,
      <<"i", "Exists">>, <<"i", "Expectations">>, <<"i", "Experience">>, <<"i", "Expertise">>,
      <<"i", "Failed">>, <<"i", "Family">>, <<"i", "Fantastic">>, <<"i", "Favorite">>,
      <<"i", "Favorite_dish">>, <<"i", "Fields">>, <<"i", "Fiesta">>, <<"i", "Fine">>,
      <<"i", "Fish">>, <<"i", "Five">>, <<"i", "Flair">>, <<"i", "Friends">>, <<"i", "Fries">>,
      <<"i", "Fusion">>, <<"i", "Generate-review">>, <<"i", "Genuine">>, <<"i", "Going">>,
      <<"i", "Google_place_id">>, <<"i", "Hei">>, <<"i", "Highest">>, <<"i", "Highlight">>,
      <<"i", "Highly">>, <<"i", "Hill">>, <<"i", "Incredible">>, <<"i", "Ingredients">>,
      <<"i", "IntegrityError">>, <<"i", "Invalid">>, <<"i", "InvalidRating">>,
      <<"i", "Italian">>, <<"i", "Joes-diner">>, <<"i", "Le-bistro">>, <<"i", "Like">>,
      <<"i", "Location">>, <<"i", "Looking">>, <<"i", "Margarita">>, <<"i", "Margaritas">>,
      <<"i", "Massive">>, <<"i", "Mexican">>, <<"i", "Mexico">>, <<"i", "Midtown">>,
      <<"i", "Missing">>, <<"i", "Mock-restaurant-no-api-key">>, <<"i", "Nice">>,
      <<"i", "Night">>, <<"i", "Option">>, <<"i", "Outstanding">>, <<"i", "Pablos-mexican">>,
      <<"i", "Passion">>, <<"i", "Pending">>, <<"i", "Pizza">>, <<"i", "Plain-tacos">>,
      <<"i", "Planning">>, <<"i", "Portions">>, <<"i", "Premium">>, <<"i", "Preparation">>,
      <<"i", "Presentation">>, <<"i", "Private">>, <<"i", "Public">>, <<"i", "Quality">>,
      <<"i", "Quick">>, <<"i", "Quiet">>, <<"i", "Raised">>, <<"i", "Rating">>,
      <<"i", "Readability_score">>, <<"i", "Recipes">>, <<"i", "Recommendation">>,
      <<"i", "Refreshing">>, <<"i", "Representing">>, <<"i", "Required">>,
      <<"i", "Returning">>, <<"i", "Review">>, <<"i", "Rice">>, <<"i", "Rich">>,
      <<"i", "Right">>, <<"i", "Risotto">>, <<"i", "Romantic">>, <<"i", "Rotation">>,
      <<"i", "Seasoning">>, <<"i", "Seeking">>, <<"i", "Selection">>, <<"i", "Service">>,
      <<"i", "Setting">>, <<"i", "Settings">>, <<"i", "Side">>, <<"i", "Sing">>,
      <<"i", "Sophia's">>, <<"i", "Sophias-italian">>, <<"i", "Sophisticated">>,
      <<"i", "Specialties">>, <<"i", "Spices">>, <<"i", "Spicy">>, <<"i", "Straight">>,
      <<"i", "Submit-review">>, <<"i", "Techniques">>, <<"i", "Telling">>, <<"i", "Thai">>,
      <<"i", "Thai-express">>, <<"i", "Thai-twins">>, <<"i", "This">>, <<"i", "Traditional">>,
      <<"i", "Visit">>, <<"i", "Wait">>, <<"i", "Will">>, <<"i", "Wine">>, <<"i", "With">>,
      <<"i", "Wood-fired">>, <<"i", "addition">>, <<"i", "amazing">>, <<"i", "ambiance">>,
      <<"i", "american">>, <<"i", "ann@mail">>, <<"i", "anniversary">>, <<"i", "api">>,
      <<"i", "aromatics">>, <<"i", "attention">>, <<"i", "authentic">>, <<"i", "beautifully">>,
      <<"i", "bistro">>, <<"i", "brand_voice">>, <<"i", "burrito">>, <<"i", "cantina">>,
      <<"i", "capitol">>, <<"i", "certainly">>, <<"i", "chicken">>, <<"i", "chinese">>,
      <<"i", "chips">>, <<"i", "classic">>, <<"i", "closing_praise">>, <<"i", "commitment">>,
      <<"i", "convenient">>, <<"i", "cooking">>, <<"i", "cuisine">>, <<"i", "cuisine_praise">>,
      <<"i", "culinary">>, <<"i", "customer_email">>, <<"i", "definitely">>,
      <<"i", "delicious">>, <<"i", "delivers">>, <<"i", "detail">>, <<"i", "diner">>,
      <<"i", "dining">>, <<"i", "dinner">>, <<"i", "discovered">>, <<"i", "dish">>,
      <<"i", "dishes">>, <<"i", "easily">>, <<"i", "enchiladas">>, <<"i", "establishment">>,
      <<"i", "evening">>, <<"i", "exception">>, <<"i", "exceptional">>,
      <<"i", "exceptionally">>, <<"i", "exists">>, <<"i", "expectations">>,
      <<"i", "experience">>, <<"i", "expertise">>, <<"i", "failed">>, <<"i", "family">>,
      <<"i", "fantastic">>, <<"i", "favorite">>, <<"i", "favorite_dish">>, <<"i", "fields">>,
      <<"i", "fiesta">>, <<"i", "fine">>, <<"i", "fish">>, <<"i", "five">>, <<"i", "flair">>,
      <<"i", "friends">>, <<"i", "fries">>, <<"i", "fusion">>, <<"i", "generate-review">>,
      <<"i", "genuine">>, <<"i", "going">>, <<"i", "google_place_id">>, <<"i", "hei">>,
      <<"i", "highest">>, <<"i", "highlight">>, <<"i", "highly">>, <<"i", "hill">>,
      <<"i", "i'm">>, <<"i", "ideal">>, <<"i", "idle">>, <<"i", "impeccable">>,
      <<"i", "impressed">>, <<"i", "in">>, <<"i", "incredible">>, <<"i", "ingredients">>,
      <<"i", "integrityerror">>, <<"i", "invalid">>, <<"i", "invalidrating">>, <<"i", "is">>,
      <<"i", "it">>, <<"i", "italian">>, <<"i", "its">>, <<"i", "joes-diner">>,
      <<"i", "le-bistro">>, <<"i", "like">>, <<"i", "location">>, <<"i", "looking">>,
      <<"i", "margarita">>, <<"i", "margaritas">>, <<"i", "massive">>, <<"i", "mexican">>,
      <<"i", "mexico">>, <<"i", "midtown">>, <<"i", "missing">>,
      <<"i", "mock-restaurant-no-api-key">>, <<"i", "nice">>, <<"i", "night">>,
      <<"i", "option">>, <<"i", "outstanding">>, <<"i", "pablos-mexican">>, <<"i", "passion">>,
      <<"i", "pending">>, <<"i", "pizza">>, <<"i", "plain-tacos">>, <<"i", "planning">>,
      <<"i", "portions">>, <<"i", "premium">>, <<"i", "preparation">>, <<"i", "presentation">>,
      <<"i", "private">>, <<"i", "public">>, <<"i", "quality">>, <<"i", "quick">>,
      <<"i", "quiet">>, <<"i", "raised">>, <<"i", "rating">>, <<"i", "readability_score">>,
      <<"i", "recipes">>, <<"i", "recommendation">>, <<"i", "refreshing">>,
      <<"i", "representing">>, <<"i", "required">>, <<"i", "returning">>, <<"i", "review">>,
      <<"i", "rice">>, <<"i", "rich">>, <<"i", "right">>, <<"i", "risotto">>,
      <<"i", "romantic">>, <<"i", "rotation">>, <<"i", "seasoning">>, <<"i", "seeking">>,
      <<"i", "selection">>, <<"i", "service">>, <<"i", "setting">>, <<"i", "settings">>,
      <<"i", "side">>, <<"i", "sing">>, <<"i", "sophia's">>, <<"i", "sophias-italian">>,
      <<"i", "sophisticated">>, <<"i", "specialties">>, <<"i", "spices">>, <<"i", "spicy">>,
      <<"i", "straight">>, <<"i", "submit-review">>, <<"i", "techniques">>, <<"i", "telling">>,
      <<"i", "thai">>, <<"i", "thai-express">>, <<"i", "thai-twins">>, <<"i", "this">>,
      <<"i", "traditional">>, <<"i", "visit">>, <<"i", "wait">>, <<"i", "will">>,
      <<"i", "wine">>, <<"i", "with">>, <<"i", "wood-fired">>, <<"i", "¡increíble">>,
      <<"in", "Amazing">>, <<"in", "Cantina">>, <<"in", "Certainly">>, <<"in", "Chinese">>,
      <<"in", "Closing_praise">>, <<"in", "Cooking">>, <<"in", "Cuisine">>,
      <<"in", "Cuisine_praise">>, <<"in", "Culinary">>, <<"in", "Definitely">>,
      <<"in", "Diner">>, <<"in", "Dining">>, <<"in", "Dinner">>, <<"in", "Evening">>,
      <<"in", "Fine">>, <<"in", "Genuine">>, <<"in", "Going">>, <<"in", "InvalidRating">>,
      <<"in", "Joes-diner">>, <<"in", "Looking">>, <<"in", "Missing">>,
      <<"in", "Outstanding">>, <<"in", "Pending">>, <<"in", "Plain-tacos">>,
      <<"in", "Planning">>, <<"in", "Rating">>, <<"in", "Refreshing">>,
      <<"in", "Representing">>, <<"in", "Returning">>, <<"in", "Seasoning">>,
      <<"in", "Seeking">>, <<"in", "Setting">>, <<"in", "Settings">>, <<"in", "Sing">>,
      <<"in", "Telling">>, <<"in", "Thai-twins">>, <<"in", "Wine">>, <<"in", "amazing">>,
      <<"in", "cantina">>, <<"in", "certainly">>, <<"in", "chinese">>,
      <<"in", "closing_praise">>, <<"in", "cooking">>, <<"in", "cuisine">>,
      <<"in", "cuisine_praise">>, <<"in", "culinary">>, <<"in", "definitely">>,
      <<"in", "diner">>, <<"in", "dining">>, <<"in", "dinner">>, <<"in", "evening">>,
      <<"in", "fine">>, <<"in", "genuine">>, <<"in", "going">>, <<"in", "incredible">>,
      <<"in", "ingredients">>, <<"in", "integrityerror">>, <<"in", "invalid">>,
      <<"in", "invalidrating">>, <<"in", "joes-diner">>, <<"in", "looking">>,
      <<"in", "missing">>, <<"in", "outstanding">>, <<"in", "pending">>,
      <<"in", "plain-tacos">>, <<"in", "planning">>, <<"in", "rating">>,
      <<"in", "refreshing">>, <<"in", "representing">>, <<"in", "returning">>,
      <<"in", "seasoning">>, <<"in", "seeking">>, <<"in", "setting">>, <<"in", "settings">>,
      <<"in", "sing">>, <<"in", "telling">>, <<"in", "thai-twins">>, <<"in", "wine">>,
      <<"in", "¡increíble">>, <<"invalid", "invalidrating">>, <<"is", "Bistro">>,
      <<"is", "Closing_praise">>, <<"is", "Cuisine">>, <<"is", "Cuisine_praise">>,
      <<"is", "Discovered">>, <<"is", "Dish">>, <<"is", "Dishes">>, <<"is", "Establishment">>,
      <<"is", "Exists">>, <<"is", "Expertise">>, <<"is", "Favorite_dish">>, <<"is", "Fish">>,
      <<"is", "Le-bistro">>, <<"is", "Missing">>, <<"is", "Raised">>, <<"is", "Risotto">>,
      <<"is", "Sophisticated">>, <<"is", "This">>, <<"is", "Visit">>, <<"is", "bistro">>,
      <<"is", "closing_praise">>, <<"is", "cuisine">>, <<"is", "cuisine_praise">>,
      <<"is", "discovered">>, <<"is", "dish">>, <<"is", "dishes">>, <<"is", "establishment">>,
      <<"is", "exists">>, <<"is", "expertise">>, <<"is", "favorite_dish">>, <<"is", "fish">>,
      <<"is", "le-bistro">>, <<"is", "missing">>, <<"is", "raised">>, <<"is", "risotto">>,
      <<"is", "sophisticated">>, <<"is", "this">>, <<"is", "visit">>, <<"it", "Addition">>,
      <<"it", "Burrito">>, <<"it", "Capitol">>, <<"it", "Commitment">>, <<"it", "Definitely">>,
      <<"it", "Favorite">>, <<"it", "Favorite_dish">>, <<"it", "IntegrityError">>,
      <<"it", "Margarita">>, <<"it", "Margaritas">>, <<"it", "Quality">>,
      <<"it", "Readability_score">>, <<"it", "Sophias-italian">>, <<"it", "Submit-review">>,
      <<"it", "Traditional">>, <<"it", "Visit">>, <<"it", "Wait">>, <<"it", "With">>,
      <<"it", "addition">>, <<"it", "burrito">>, <<"it", "capitol">>, <<"it", "commitment">>,
      <<"it", "definitely">>, <<"it", "favorite">>, <<"it", "favorite_dish">>,
      <<"it", "integrityerror">>, <<"it", "italian">>, <<"it", "its">>, <<"it", "margarita">>,
      <<"it", "margaritas">>, <<"it", "quality">>, <<"it", "readability_score">>,
      <<"it", "sophias-italian">>, <<"it", "submit-review">>, <<"it", "traditional">>,
      <<"it", "visit">>, <<"it", "wait">>, <<"it", "with">>, <<"italian", "Sophias-italian">>,
      <<"italian", "sophias-italian">>, <<"late", "Broken-templates">>,
      <<"late", "Custom_templates">>, <<"late", "Template_used">>, <<"late", "Templates">>,
      <<"late", "broken-templates">>, <<"late", "custom_templates">>,
      <<"late", "template_used">>, <<"late", "templates">>, <<"le", "Auto_sms_enabled">>,
      <<"le", "Called">>, <<"le", "Completed">>, <<"le", "Complex">>, <<"le", "Excellence">>,
      <<"le", "Failed">>, <<"le", "Followup_completed">>, <<"le", "Google_place_id">>,
      <<"le", "Guacamole">>, <<"le", "Idle">>, <<"le", "Impeccable">>, <<"le", "Incredible">>,
      <<"le", "Long-table">>, <<"le", "Remarkable">>, <<"le", "Seattle">>,
      <<"le", "Selection">>, <<"le", "Upscale">>, <<"le", "auto_sms_enabled">>,
      <<"le", "called">>, <<"le", "completed">>, <<"le", "complex">>, <<"le", "excellence">>,
      <<"le", "failed">>, <<"le", "followup_completed">>, <<"le", "google_place_id">>,
      <<"le", "guacamole">>, <<"le", "idle">>, <<"le", "impeccable">>, <<"le", "incredible">>,
      <<"le", "le-bistro">>, <<"le", "long-table">>, <<"le", "remarkable">>,
      <<"le", "seattle">>, <<"le", "selection">>, <<"le", "upscale">>, <<"le", "¡Increíble">>,
      <<"le", "¡increíble">>, <<"look", "looking">>, <<"made", "Homemade">>,
      <<"made", "homemade">>, <<"margarita", "margaritas">>, <<"me", "American">>,
      <<"me", "Came">>, <<"me", "Come">>, <<"me", "Commitment">>, <<"me", "Customer_email">>,
      <<"me", "Customer_phone">>, <<"me", "Establishment">>, <<"me", "Home">>,
      <<"me", "Homemade">>, <<"me", "Name">>, <<"me", "Pablos-mexican">>,
      <<"me", "Recommend">>, <<"me", "Recommendation">>, <<"me", "Remember">>,
      <<"me", "american">>, <<"me", "came">>, <<"me", "come">>, <<"me", "commitment">>,
      <<"me", "customer_email">>, <<"me", "customer_phone">>, <<"me", "establishment">>,
      <<"me", "home">>, <<"me", "homemade">>, <<"me", "meal">>, <<"me", "mexican">>,
      <<"me", "mexico">>, <<"me", "name">>, <<"me", "pablos-mexican">>, <<"me", "recommend">>,
      <<"me", "recommendation">>, <<"me", "remember">>, <<"mexican", "Pablos-mexican">>,
      <<"mexican", "pablos-mexican">>, <<"mock", "mock-restaurant-no-api-key">>,
      <<"my", "Creamy">>, <<"my", "creamy">>, <<"not", "Another">>, <<"not", "another">>,
      <<"on", "Addition">>, <<"on", "Anyone">>, <<"on", "Attention">>, <<"on", "Convenient">>,
      <<"on", "Customer_phone">>, <<"on", "Done">>, <<"on", "Exception">>,
      <<"on", "Exceptional">>, <<"on", "Exceptionally">>, <<"on", "Expectations">>,
      <<"on", "Fondly">>, <<"on", "Fusion">>, <<"on", "Honestly">>, <<"on", "Location">>,
      <<"on", "Long-table">>, <<"on", "None">>, <<"on", "Option">>, <<"on", "Passion">>,
      <<"on", "Portions">>, <<"on", "Preparation">>, <<"on", "Presentation">>,
      <<"on", "Recommendation">>, <<"on", "Respond">>, <<"on", "Rotation">>,
      <<"on", "Seasoning">>, <<"on", "Selection">>, <<"on", "Soon">>, <<"on", "Traditional">>,
      <<"on", "Wonderful">>, <<"on", "addition">>, <<"on", "anyone">>, <<"on", "attention">>,
      <<"on", "convenient">>, <<"on", "customer_phone">>, <<"on", "done">>,
      <<"on", "exception">>, <<"on", "exceptional">>, <<"on", "exceptionally">>,
      <<"on", "expectations">>, <<"on", "fondly">>, <<"on", "fusion">>, <<"on", "honestly">>,
      <<"on", "location">>, <<"on", "long-table">>, <<"on", "none">>, <<"on", "one">>,
      <<"on", "option">>, <<"on", "passion">>, <<"on", "portions">>, <<"on", "preparation">>,
      <<"on", "presentation">>, <<"on", "recommendation">>, <<"on", "respond">>,
      <<"on", "rotation">>, <<"on", "seasoning">>, <<"on", "selection">>, <<"on", "soon">>,
      <<"on", "traditional">>, <<"on", "wonderful">>, <<"one", "Anyone">>,
      <<"one", "Customer_phone">>, <<"one", "Done">>, <<"one", "Honestly">>, <<"one", "None">>,
      <<"one", "anyone">>, <<"one", "customer_phone">>, <<"one", "done">>,
      <<"one", "honestly">>, <<"one", "none">>, <<"our", "Sms_delay_hours">>,
      <<"our", "Sour">>, <<"our", "sms_delay_hours">>, <<"our", "sour">>,
      <<"perfect", "perfectly">>, <<"place", "Google_place_id">>,
      <<"place", "google_place_id">>, <<"place", "place-a">>, <<"place", "place-b">>,
      <<"place", "place-c">>, <<"rating", "invalidrating">>, <<"recommend", "recommendation">>,
      <<"restaurant", "Mock-restaurant-no-api-key">>,
      <<"restaurant", "mock-restaurant-no-api-key">>, <<"review", "Generate-review">>,
      <<"review", "Submit-review">>, <<"review", "generate-review">>,
      <<"review", "submit-review">>, <<"sent", "Presentation">>, <<"sent", "Presented">>,
      <<"sent", "Representing">>, <<"sent", "presentation">>, <<"sent", "presented">>,
      <<"sent", "representing">>, <<"setting", "settings">>, <<"sing", "Closing_praise">>,
      <<"sing", "Missing">>, <<"sing", "closing_praise">>, <<"sing", "missing">>,
      <<"so", "Absolutely">>, <<"so", "Queso">>, <<"so", "Resolved">>, <<"so", "Risotto">>,
      <<"so", "Seasoning">>, <<"so", "absolutely">>, <<"so", "queso">>, <<"so", "resolved">>,
      <<"so", "risotto">>, <<"so", "seasoning">>, <<"so", "soon">>, <<"so", "sophia's">>,
      <<"so", "sophias-italian">>, <<"so", "sophisticated">>, <<"so", "sour">>,
      <<"spot", "spots">>, <<"stand", "Outstanding">>, <<"stand", "Taco-stand">>,
      <<"stand", "outstanding">>, <<"stand", "taco-stand">>, <<"taco", "Plain-tacos">>,
      <<"taco", "plain-tacos">>, <<"taco", "taco-stand">>, <<"taco", "tacos">>,
      <<"tacos", "Plain-tacos">>, <<"tacos", "plain-tacos">>,
      <<"templates", "Broken-templates">>, <<"templates", "Custom_templates">>,
      <<"templates", "broken-templates">>, <<"templates", "custom_templates">>,
      <<"thai", "thai-express">>, <<"thai", "thai-twins">>, <<"the", "Another">>,
      <<"the", "Authentic">>, <<"the", "another">>, <<"the", "authentic">>,
      <<"to", "Auto_sms_enabled">>, <<"to", "Burrito">>, <<"to", "Capitol">>,
      <<"to", "Custom_templates">>, <<"to", "Customer_email">>, <<"to", "Customer_phone">>,
      <<"to", "Downtown">>, <<"to", "Midtown">>, <<"to", "Risotto">>, <<"to", "Uptown">>,
      <<"to", "auto_sms_enabled">>, <<"to", "burrito">>, <<"to", "capitol">>,
      <<"to", "custom_templates">>, <<"to", "customer_email">>, <<"to", "customer_phone">>,
      <<"to", "downtown">>, <<"to", "midtown">>, <<"to", "risotto">>, <<"to", "totally">>,
      <<"to", "uptown">>, <<"updated", "updated_at">>, <<"we", "Sweet">>, <<"we", "sweet">>,
      <<"we", "weekday">>, <<"we", "well">>
    }

\* pairs <<a, b>> of distinct atoms with a a prefix of b
ProperPrefix ==
    {
    <<"-", "-star">>, <<"5", "555-0100">>, <<"A", "API">>, <<"A", "About">>,
      <<"A", "Absolutely">>, <<"A", "Abuela's">>, <<"A", "Addition">>, <<"A", "Adds">>,
      <<"A", "Al">>, <<"A", "All">>, <<"A", "Already">>, <<"A", "Amazing">>,
      <<"A", "Ambiance">>, <<"A", "American">>, <<"A", "An">>, <<"A", "And">>,
      <<"A", "Ann@mail">>, <<"A", "Anniversary">>, <<"A", "Another">>, <<"A", "Anyone">>,
      <<"A", "Area">>, <<"A", "Aromatics">>, <<"A", "Around">>, <<"A", "As">>, <<"A", "Ask">>,
      <<"A", "At">>, <<"A", "Atmosphere">>, <<"A", "Attention">>, <<"A", "Authentic">>,
      <<"A", "Auto_sms_enabled">>, <<"Al", "All">>, <<"Al", "Already">>, <<"An", "And">>,
      <<"An", "Ann@mail">>, <<"An", "Anniversary">>, <<"An", "Another">>, <<"An", "Anyone">>,
      <<"As", "Ask">>, <<"At", "Atmosphere">>, <<"At", "Attention">>, <<"Be", "Beans">>,
      <<"Be", "Beautifully">>, <<"Be", "Best">>, <<"Be", "Better">>, <<"Burger", "Burgers">>,
      <<"Corner", "Corner-cafe">>, <<"Cuisine", "Cuisine_praise">>, <<"Dish", "Dishes">>,
      <<"Even", "Evening">>, <<"Exception", "Exceptional">>, <<"Exception", "Exceptionally">>,
      <<"Exceptional", "Exceptionally">>, <<"Fast", "Fast_casual">>,
      <<"Favorite", "Favorite_dish">>, <<"For", "Forward">>, <<"Generate", "Generate-review">>,
      <<"Home", "Homemade">>, <<"I", "I'm">>, <<"I", "Ideal">>, <<"I", "Idle">>,
      <<"I", "Impeccable">>, <<"I", "Impressed">>, <<"I", "In">>, <<"I", "Incredible">>,
      <<"I", "Ingredients">>, <<"I", "IntegrityError">>, <<"I", "Invalid">>,
      <<"I", "InvalidRating">>, <<"I", "Is">>, <<"I", "It">>, <<"I", "Italian">>,
      <<"I", "Its">>, <<"In", "Incredible">>, <<"In", "Ingredients">>,
      <<"In", "IntegrityError">>, <<"In", "Invalid">>, <<"In", "InvalidRating">>,
      <<"Invalid", "InvalidRating">>, <<"It", "Italian">>, <<"It", "Its">>,
      <<"Le", "Le-bistro">>, <<"Look", "Looking">>, <<"Margarita", "Margaritas">>,
      <<"Me", "Meal">>, <<"Me", "Mexican">>, <<"Me", "Mexico">>,
      <<"Mock", "Mock-restaurant-no-api-key">>, <<"On", "One">>, <<"Perfect", "Perfectly">>,
      <<"Place", "Place-a">>, <<"Place", "Place-b">>, <<"Place", "Place-c">>,
      <<"Recommend", "Recommendation">>, <<"Setting", "Settings">>, <<"So", "Soon">>,
      <<"So", "Sophia's">>, <<"So", "Sophias-italian">>, <<"So", "Sophisticated">>,
      <<"So", "Sour">>, <<"Spot", "Spots">>, <<"Taco", "Taco-stand">>, <<"Taco", "Tacos">>,
      <<"Thai", "Thai-express">>, <<"Thai", "Thai-twins">>, <<"To", "Totally">>,
      <<"Updated", "Updated_at">>, <<"We", "Weekday">>, <<"We", "Well">>, <<"a", "about">>,
      <<"a", "absolutely">>, <<"a", "abuela's">>, <<"a", "addition">>, <<"a", "adds">>,
      <<"a", "al">>, <<"a", "all">>, <<"a", "already">>, <<"a", "amazing">>,
      <<"a", "ambiance">>, <<"a", "american">>, <<"a", "an">>, <<"a", "and">>,
      <<"a", "ann@mail">>, <<"a", "anniversary">>, <<"a", "another">>, <<"a", "anyone">>,
      <<"a", "api">>, <<"a", "area">>, <<"a", "aromatics">>, <<"a", "around">>, <<"a", "as">>,
      <<"a", "ask">>, <<"a", "at">>, <<"a", "atmosphere">>, <<"a", "attention">>,
      <<"a", "authentic">>, <<"a", "auto_sms_enabled">>, <<"al", "all">>, <<"al", "already">>,
      <<"an", "and">>, <<"an", "ann@mail">>, <<"an", "anniversary">>, <<"an", "another">>,
      <<"an", "anyone">>, <<"as", "ask">>, <<"at", "atmosphere">>, <<"at", "attention">>,
      <<"be", "beans">>, <<"be", "beautifully">>, <<"be", "best">>, <<"be", "better">>,
      <<"burger", "burgers">>, <<"corner", "corner-cafe">>, <<"cuisine", "cuisine_praise">>,
      <<"dish", "dishes">>, <<"even", "evening">>, <<"exception", "exceptional">>,
      <<"exception", "exceptionally">>, <<"exceptional", "exceptionally">>,
      <<"fast", "fast_casual">>, <<"favorite", "favorite_dish">>, <<"for", "forward">>,
      <<"generate", "generate-review">>, <<"home", "homemade">>, <<"i", "i'm">>,
      <<"i", "ideal">>, <<"i", "idle">>, <<"i", "impeccable">>, <<"i", "impressed">>,
      <<"i", "in">>, <<"i", "incredible">>, <<"i", "ingredients">>, <<"i", "integrityerror">>,
      <<"i", "invalid">>, <<"i", "invalidrating">>, <<"i", "is">>, <<"i", "it">>,
      <<"i", "italian">>, <<"i", "its">>, <<"in", "incredible">>, <<"in", "ingredients">>,
      <<"in", "integrityerror">>, <<"in", "invalid">>, <<"in", "invalidrating">>,
      <<"invalid", "invalidrating">>, <<"it", "italian">>, <<"it", "its">>,
      <<"le", "le-bistro">>, <<"look", "looking">>, <<"margarita", "margaritas">>,
      <<"me", "meal">>, <<"me", "mexican">>, <<"me", "mexico">>,
      <<"mock", "mock-restaurant-no-api-key">>, <<"on", "one">>, <<"perfect", "perfectly">>,
      <<"place", "place-a">>, <<"place", "place-b">>, <<"place", "place-c">>,
      <<"recommend", "recommendation">>, <<"setting", "settings">>, <<"so", "soon">>,
      <<"so", "sophia's">>, <<"so", "sophias-italian">>, <<"so", "sophisticated">>,
      <<"so", "sour">>, <<"spot", "spots">>, <<"taco", "taco-stand">>, <<"taco", "tacos">>,
      <<"thai", "thai-express">>, <<"thai", "thai-twins">>, <<"to", "totally">>,
      <<"updated", "updated_at">>, <<"we", "weekday">>, <<"we", "well">>
    }

\* pairs <<a, b>> of distinct atoms with a a suffix of b
ProperSuffix ==
    {
    <<"I", "API">>, <<"Rating", "InvalidRating">>, <<"a", "Area">>, <<"a", "Cantina">>,
      <<"a", "Data">>, <<"a", "Fiesta">>, <<"a", "Margarita">>, <<"a", "Pasta">>,
      <<"a", "Pizza">>, <<"a", "Place-a">>, <<"a", "area">>, <<"a", "cantina">>,
      <<"a", "data">>, <<"a", "fiesta">>, <<"a", "margarita">>, <<"a", "pasta">>,
      <<"a", "pizza">>, <<"a", "place-a">>, <<"al", "Casual">>, <<"al", "Exceptional">>,
      <<"al", "Fast_casual">>, <<"al", "Ideal">>, <<"al", "Local">>, <<"al", "Meal">>,
      <<"al", "Traditional">>, <<"al", "casual">>, <<"al", "exceptional">>,
      <<"al", "fast_casual">>, <<"al", "ideal">>, <<"al", "local">>, <<"al", "meal">>,
      <<"al", "traditional">>, <<"an", "American">>, <<"an", "Italian">>, <<"an", "Mexican">>,
      <<"an", "Pablos-mexican">>, <<"an", "Sophias-italian">>, <<"an", "american">>,
      <<"an", "italian">>, <<"an", "mexican">>, <<"an", "pablos-mexican">>,
      <<"an", "sophias-italian">>, <<"and", "Stand">>, <<"and", "Taco-stand">>,
      <<"and", "stand">>, <<"and", "taco-stand">>, <<"as", "Enchiladas">>, <<"as", "Has">>,
      <<"as", "Margaritas">>, <<"as", "Was">>, <<"as", "enchiladas">>, <<"as", "has">>,
      <<"as", "margaritas">>, <<"as", "was">>, <<"at", "Great">>, <<"at", "That">>,
      <<"at", "Updated_at">>, <<"at", "What">>, <<"at", "great">>, <<"at", "that">>,
      <<"at", "updated_at">>, <<"at", "what">>, <<"back", "Feedback">>, <<"back", "feedback">>,
      <<"bistro", "Le-bistro">>, <<"bistro", "le-bistro">>, <<"cafe", "Corner-cafe">>,
      <<"cafe", "corner-cafe">>, <<"casual", "Fast_casual">>, <<"casual", "fast_casual">>,
      <<"completed", "Followup_completed">>, <<"completed", "followup_completed">>,
      <<"diner", "Joes-diner">>, <<"diner", "joes-diner">>, <<"dish", "Favorite_dish">>,
      <<"dish", "favorite_dish">>, <<"express", "Thai-express">>,
      <<"express", "thai-express">>, <<"here", "Atmosphere">>, <<"here", "Nowhere">>,
      <<"here", "atmosphere">>, <<"here", "nowhere">>, <<"i", "Hei">>, <<"i", "Thai">>,
      <<"i", "api">>, <<"i", "hei">>, <<"i", "thai">>, <<"is", "This">>, <<"is", "this">>,
      <<"it", "Visit">>, <<"it", "Wait">>, <<"it", "visit">>, <<"it", "wait">>,
      <<"italian", "Sophias-italian">>, <<"italian", "sophias-italian">>,
      <<"le", "Guacamole">>, <<"le", "Idle">>, <<"le", "Impeccable">>, <<"le", "Incredible">>,
      <<"le", "Long-table">>, <<"le", "Remarkable">>, <<"le", "Seattle">>, <<"le", "Upscale">>,
      <<"le", "guacamole">>, <<"le", "idle">>, <<"le", "impeccable">>, <<"le", "incredible">>,
      <<"le", "long-table">>, <<"le", "remarkable">>, <<"le", "seattle">>, <<"le", "upscale">>,
      <<"le", "¡Increíble">>, <<"le", "¡increíble">>, <<"made", "Homemade">>,
      <<"made", "homemade">>, <<"me", "Came">>, <<"me", "Come">>, <<"me", "Home">>,
      <<"me", "Name">>, <<"me", "came">>, <<"me", "come">>, <<"me", "home">>, <<"me", "name">>,
      <<"mexican", "Pablos-mexican">>, <<"mexican", "pablos-mexican">>, <<"my", "Creamy">>,
      <<"my", "creamy">>, <<"on", "Addition">>, <<"on", "Attention">>, <<"on", "Exception">>,
      <<"on", "Fusion">>, <<"on", "Location">>, <<"on", "Option">>, <<"on", "Passion">>,
      <<"on", "Preparation">>, <<"on", "Presentation">>, <<"on", "Recommendation">>,
      <<"on", "Rotation">>, <<"on", "Selection">>, <<"on", "Soon">>, <<"on", "addition">>,
      <<"on", "attention">>, <<"on", "exception">>, <<"on", "fusion">>, <<"on", "location">>,
      <<"on", "option">>, <<"on", "passion">>, <<"on", "preparation">>,
      <<"on", "presentation">>, <<"on", "recommendation">>, <<"on", "rotation">>,
      <<"on", "selection">>, <<"on", "soon">>, <<"one", "Anyone">>,
      <<"one", "Customer_phone">>, <<"one", "Done">>, <<"one", "None">>, <<"one", "anyone">>,
      <<"one", "customer_phone">>, <<"one", "done">>, <<"one", "none">>, <<"our", "Sour">>,
      <<"our", "sour">>, <<"rating", "invalidrating">>, <<"review", "Generate-review">>,
      <<"review", "Submit-review">>, <<"review", "generate-review">>,
      <<"review", "submit-review">>, <<"sing", "Missing">>, <<"sing", "missing">>,
      <<"so", "Queso">>, <<"so", "queso">>, <<"stand", "Taco-stand">>,
      <<"stand", "taco-stand">>, <<"tacos", "Plain-tacos">>, <<"tacos", "plain-tacos">>,
      <<"templates", "Broken-templates">>, <<"templates", "Custom_templates">>,
      <<"templates", "broken-templates">>, <<"templates", "custom_templates">>,
      <<"to", "Burrito">>, <<"to", "Risotto">>, <<"to", "burrito">>, <<"to", "risotto">>
    }

\* ---- end character tables ----

\* the function with the given set of <<argument, value>> pairs
TableOf(pairs) ==
    [a \in {p[1] : p \in pairs} |-> (CHOOSE p \in pairs : p[1] = a)[2]]

UpperTable == TableOf(UpperPairs)
LowerTable == TableOf(LowerPairs)

\* str.upper() of the first character of an atom
UpperFirst(a) == IF a \in DOMAIN UpperTable THEN UpperTable[a] ELSE a

----------------------------------------------------------------------------
(* ReviewGenerator._enhance_review *)

\* the concatenation of parts[lo], ..., parts[hi] (halving keeps the
\* evaluation depth logarithmic in the length)
RECURSIVE Flatten(_, _, _)
Flatten(parts, lo, hi) ==
    IF lo > hi THEN <<>>
    ELSE IF lo = hi THEN parts[lo]
    ELSE LET mid == (lo + hi) \div 2 IN
         Flatten(parts, lo, mid) \o Flatten(parts, mid + 1, hi)

\* re.sub(r'\s+', ' ', review_text): every maximal whitespace run becomes
\* one space
CollapseWhitespace(s) ==
    LET parts == [i \in 1..Len(s) |->
                    IF ~IsSpace(s[i]) THEN <<s[i]>>
                    ELSE IF i < Len(s) /\ IsSpace(s[i + 1]) THEN <<>>
                    ELSE <<" ">>]
    IN  Flatten(parts, 1, Len(s))

\* TRUE iff s[i] lies in a whitespace run that is directly followed by one
\* of . ! ?
RunThenPunct(s, i) ==
    \E j \in (i + 1)..Len(s) :
        /\ s[j] \in TerminalPunct
        /\ \A k \in i..(j - 1) : IsSpace(s[k])

\* _enhance_review without the substitution of line 196
StripBeforePunctOmitted(s) == s

\* re.sub(r'\s+([.!?])', r'\1', review_text): a whitespace run directly
\* before . ! ? is deleted
StripBeforePunct(s) ==
    LET parts == [i \in 1..Len(s) |->
                    IF IsSpace(s[i]) /\ RunThenPunct(s, i) THEN <<>> ELSE <<s[i]>>]
    IN  Flatten(parts, 1, Len(s))

\* str.strip()
Strip(s) ==
    IF \A i \in 1..Len(s) : IsSpace(s[i]) THEN <<>>
    ELSE LET first == CHOOSE i \in 1..Len(s) :
                          ~IsSpace(s[i]) /\ \A j \in 1..(i - 1) : IsSpace(s[j])
             last == CHOOSE i \in 1..Len(s) :
                          ~IsSpace(s[i]) /\ \A j \in (i + 1)..Len(s) : IsSpace(s[j])
         IN  SubSeq(s, first, last)

\* the positions at which ". " starts in s (two occurrences cannot overlap)
Separators(s) == {i \in 1..(Len(s) - 1) : s[i] = "." /\ s[i + 1] = " "}

\* review_text.split('. '): the list of segments, empty ones included
SplitSentences(s) ==
    LET seps == Separators(s)
        m == Cardinality(seps)
        \* position of the k-th separator; 0 - 1 and Len(s) + 1 bracket the text
        sep(k) == IF k = 0 THEN -1
                  ELSE IF k = m + 1 THEN Len(s) + 1
                  ELSE CHOOSE i \in seps : Cardinality({j \in seps : j < i}) = k - 1
    IN  [k \in 1..(m + 1) |-> SubSeq(s, sep(k - 1) + 2, sep(k) - 1)]

\* sentence[0].upper() + sentence[1:] if len(sentence) > 1 else sentence.upper()
Capitalize(sentence) == <<UpperFirst(Head(sentence))>> \o Tail(sentence)

\* the loop of lines 202-206: empty segments are dropped, the others
\* capitalized
RECURSIVE EnhanceSentences(_)
EnhanceSentences(sentences) ==
    IF sentences = <<>> THEN <<>>
    ELSE IF Head(sentences) # <<>>
         THEN <<Capitalize(Head(sentences))>> \o EnhanceSentences(Tail(sentences))
         ELSE EnhanceSentences(Tail(sentences))

\* '. '.join(enhanced_sentences)
RECURSIVE JoinSentences(_)
JoinSentences(sentences) ==
    IF sentences = <<>> THEN <<>>
    ELSE IF Len(sentences) = 1 THEN Head(sentences)
    ELSE Head(sentences) \o <<".", " ">> \o JoinSentences(Tail(sentences))

\* review_text.endswith(('.', '!', '?'))
EndsWithPunct(s) == s # <<>> /\ s[Len(s)] \in TerminalPunct

\* EnsureEnding taking only '.' for an ending
EnsureEndingPeriodOnly(s) ==
    IF s # <<>> /\ s[Len(s)] = "." THEN s ELSE s \o <<"!">>

\* EnsureEnding without the appended '!'
EnsureEndingOmitted(s) == s

\* lines 210-212: append '!' unless the text ends in . ! ?
EnsureEnding(s) == IF EndsWithPunct(s) THEN s ELSE s \o <<"!">>

_enhance_review(review_text) ==
    LET cleaned == Strip(StripBeforePunct(CollapseWhitespace(review_text)))
        sentences == SplitSentences(cleaned)
    IN  EnsureEnding(JoinSentences(EnhanceSentences(sentences)))

----------------------------------------------------------------------------
(* Phrase banks and sample restaurants *)

\* ---- begin phrase banks ----
\* self.cuisine_praise (review_generator.py:13-45)
cuisine_praise ==
    <<"Mexican">> :>
      <<
        <<"authentic", " ", "flavors", " ", "that", " ", "transported", " ", "me", " ",
          "straight", " ", "to", " ", "Mexico">>,
        <<"fresh", " ", "ingredients", " ", "with", " ", "the", " ", "perfect", " ", "balance",
          " ", "of", " ", "spices">>,
        <<"traditional", " ", "preparation", " ", "with", " ", "incredible", " ", "taste">>,
        <<"genuine", " ", "Mexican", " ", "flavors", " ", "done", " ", "right">>,
        <<"bold", " ", "spices", " ", "and", " ", "amazing", " ", "presentation">>,
        <<"like", " ", "my", " ", "abuela's", " ", "cooking", " ", "but", " ", "even", " ",
          "better">>
      >>
  @@
    <<"Italian">> :>
      <<
        <<"traditional", " ", "Italian", " ", "techniques", " ", "with", " ", "premium", " ",
          "ingredients">>,
        <<"perfectly", " ", "prepared", " ", "with", " ", "authentic", " ", "Italian", " ",
          "flair">>,
        <<"like", " ", "dining", " ", "in", " ", "Tuscany", " ", "with", " ", "incredible",
          " ", "attention", " ", "to", " ", "detail">>,
        <<"masterfully", " ", "crafted", " ", "with", " ", "genuine", " ", "Italian", " ",
          "passion">>,
        <<"rich", ",", " ", "authentic", " ", "flavors", " ", "that", " ", "sing">>,
        <<"perfectly", " ", "al", " ", "dente", " ", "with", " ", "amazing", " ", "sauce">>
      >>
  @@
    <<"Chinese">> :>
      <<
        <<"authentic", " ", "Chinese", " ", "flavors", " ", "with", " ", "perfect", " ",
          "seasoning">>,
        <<"traditional", " ", "techniques", " ", "with", " ", "fresh", " ", "ingredients">>,
        <<"amazing", " ", "wok", " ", "hei", " ", "and", " ", "perfect", " ", "balance", " ",
          "of", " ", "flavors">>
      >>
  @@
    <<"American">> :>
      <<
        <<"perfectly", " ", "prepared", " ", "comfort", " ", "food">>,
        <<"classic", " ", "American", " ", "flavors", " ", "done", " ", "exceptionally", " ",
          "well">>,
        <<"hearty", " ", "portions", " ", "with", " ", "incredible", " ", "taste">>
      >>
  @@
    <<"Thai">> :>
      <<
        <<"perfect", " ", "balance", " ", "of", " ", "sweet", ",", " ", "sour", ",", " ",
          "salty", " ", "and", " ", "spicy">>,
        <<"authentic", " ", "Thai", " ", "flavors", " ", "with", " ", "amazing", " ",
          "aromatics">>,
        <<"traditional", " ", "recipes", " ", "with", " ", "fresh", " ", "herbs", " ", "and",
          " ", "spices">>
      >>

\* the default of self.cuisine_praise.get (review_generator.py:150-154)
GenericPraise ==
    <<
      <<"perfectly", " ", "prepared", " ", "with", " ", "great", " ", "attention", " ", "to",
        " ", "detail">>,
      <<"absolutely", " ", "delicious", " ", "with", " ", "amazing", " ", "flavors">>,
      <<"expertly", " ", "crafted", " ", "and", " ", "beautifully", " ", "presented">>
    >>

\* self.closing_phrases (review_generator.py:47-70)
closing_phrases ==
    <<"casual">> :>
      <<
        <<"Can't", " ", "wait", " ", "to", " ", "come", " ", "back", " ", "and", " ", "try",
          " ", "more", " ", "dishes", "!">>,
        <<"Already", " ", "planning", " ", "my", " ", "next", " ", "visit", "!">>,
        <<"This", " ", "place", " ", "is", " ", "definitely", " ", "going", " ", "on", " ",
          "my", " ", "regular", " ", "rotation", "!">>,
        <<"Telling", " ", "all", " ", "my", " ", "friends", " ", "about", " ", "this", " ",
          "gem", "!">>,
        <<"Will", " ", "definitely", " ", "be", " ", "back", " ", "soon", "!">>,
        <<"Highly", " ", "recommend", " ", "to", " ", "anyone", " ", "in", " ", "the", " ",
          "area", "!">>
      >>
  @@
    <<"upscale">> :>
      <<
        <<"We", " ", "look", " ", "forward", " ", "to", " ", "returning", " ", "for", " ",
          "another", " ", "exceptional", " ", "experience", ".">>,
        <<"A", " ", "dining", " ", "experience", " ", "we", " ", "will", " ", "fondly", " ",
          "remember", ".">>,
        <<"This", " ", "establishment", " ", "has", " ", "earned", " ", "our", " ", "highest",
          " ", "recommendation", ".">>,
        <<"We", " ", "will", " ", "certainly", " ", "be", " ", "returning", " ", "guests",
          ".">>,
        <<"An", " ", "outstanding", " ", "addition", " ", "to", " ", "the", " ", "culinary",
          " ", "landscape", ".">>,
        <<"Exceptional", " ", "in", " ", "every", " ", "regard", ".">>
      >>
  @@
    <<"fast_casual">> :>
      <<
        <<"Perfect", " ", "for", " ", "a", " ", "quick", ",", " ", "delicious", " ", "meal",
          "!">>,
        <<"Great", " ", "option", " ", "when", " ", "you", " ", "want", " ", "quality", " ",
          "fast", " ", "food", "!">>,
        <<"Will", " ", "definitely", " ", "be", " ", "back", " ", "when", " ", "I'm", " ",
          "in", " ", "the", " ", "area", "!">>,
        <<"Exactly", " ", "what", " ", "I", " ", "was", " ", "looking", " ", "for", "!">>
      >>

\* the dict enhancements (review_generator.py:167-179); a dict keeps insertion
\* order, so each table is a sequence of <<key_dish, enhanced_options>>
enhancements ==
    <<"Mexican">> :>
      <<
        <<<<"tacos">>,
          <<
            <<"amazing", " ", "tacos">>,
            <<"authentic", " ", "tacos">>,
            <<"incredible", " ", "tacos">>
          >>>>,
        <<<<"burrito">>,
          <<
            <<"massive", " ", "burrito">>,
            <<"loaded", " ", "burrito">>,
            <<"perfect", " ", "burrito">>
          >>>>,
        <<<<"enchiladas">>,
          <<
            <<"cheese", " ", "enchiladas">>,
            <<"chicken", " ", "enchiladas">>,
            <<"amazing", " ", "enchiladas">>
          >>>>,
        <<<<"margarita">>,
          <<
            <<"perfect", " ", "margarita">>,
            <<"refreshing", " ", "margarita">>,
            <<"house", " ", "margarita">>
          >>>>
      >>
  @@
    <<"Italian">> :>
      <<
        <<<<"pasta">>,
          <<
            <<"homemade", " ", "pasta">>,
            <<"fresh", " ", "pasta">>,
            <<"perfectly", " ", "cooked", " ", "pasta">>
          >>>>,
        <<<<"pizza">>,
          <<
            <<"wood-fired", " ", "pizza">>,
            <<"authentic", " ", "pizza">>,
            <<"amazing", " ", "pizza">>
          >>>>,
        <<<<"risotto">>,
          <<
            <<"creamy", " ", "risotto">>,
            <<"perfect", " ", "risotto">>,
            <<"incredible", " ", "risotto">>
          >>>>
      >>

\* the dict templates of _get_default_templates (review_generator.py:249-271)
DefaultTemplateTable ==
    <<"casual">> :>
      <<
        <<"Had", " ", "an", " ", "amazing", " ", "{", "rating", "}", "-star", " ",
          "experience", " ", "at", " ", "{", "name", "}", "!", " ", "The", " ", "{", "dish",
          "}", " ", "was", " ", "absolutely", " ", "incredible", " ", "-", " ", "{",
          "cuisine_praise", "}", ".", " ", "Perfect", " ", "spot", " ", "for", " ", "{",
          "atmosphere", "}", " ", "and", " ", "definitely", " ", "{", "seo_keyword_1", "}",
          ".", " ", "The", " ", "{", "location", "}", " ", "location", " ", "is", " ", "super",
          " ", "convenient", "!", " ", "{", "closing_praise", "}">>,
        <<"Wow", "!", " ", "{", "name", "}", " ", "totally", " ", "exceeded", " ", "my", " ",
          "expectations", "!", " ", "The", " ", "{", "dish", "}", " ", "was", " ", "fantastic",
          " ", "-", " ", "{", "cuisine_praise", "}", ".", " ", "Great", " ", "atmosphere", " ",
          "for", " ", "{", "atmosphere", "}", ",", " ", "and", " ", "honestly", " ", "one",
          " ", "of", " ", "the", " ", "{", "seo_keyword_2", "}", " ", "around", ".", " ", "{",
          "closing_praise", "}">>,
        <<"Just", " ", "discovered", " ", "my", " ", "new", " ", "favorite", " ", "place", "!",
          " ", "{", "name", "}", " ", "serves", " ", "amazing", " ", "{", "rating", "}",
          "-star", " ", "{", "cuisine", "}", " ", "food", ".", " ", "The", " ", "{", "dish",
          "}", " ", "was", " ", "the", " ", "highlight", " ", "-", " ", "{", "cuisine_praise",
          "}", ".", " ", "Perfect", " ", "for", " ", "{", "atmosphere", "}", " ", "and", " ",
          "easily", " ", "{", "seo_keyword_1", "}", ".", " ", "{", "closing_praise", "}">>
      >>
  @@
    <<"upscale">> :>
      <<
        <<"Exceptional", " ", "{", "rating", "}", "-star", " ", "dining", " ", "experience",
          " ", "at", " ", "{", "name", "}", ".", " ", "The", " ", "{", "dish", "}", " ", "was",
          " ", "expertly", " ", "prepared", " ", "-", " ", "{", "cuisine_praise", "}", ".",
          " ", "The", " ", "ambiance", " ", "was", " ", "perfect", " ", "for", " ", "{",
          "atmosphere", "}", ",", " ", "truly", " ", "representing", " ", "{", "seo_keyword_1",
          "}", ".", " ", "The", " ", "{", "location", "}", " ", "location", " ", "adds", " ",
          "to", " ", "its", " ", "sophisticated", " ", "charm", ".", " ", "{",
          "closing_praise", "}">>,
        <<"Outstanding", " ", "evening", " ", "at", " ", "{", "name", "}", ".", " ", "The",
          " ", "{", "dish", "}", " ", "was", " ", "beautifully", " ", "crafted", " ", "-", " ",
          "{", "cuisine_praise", "}", ".", " ", "Every", " ", "detail", " ", "made", " ", "it",
          " ", "ideal", " ", "for", " ", "{", "atmosphere", "}", ".", " ", "When", " ",
          "seeking", " ", "{", "seo_keyword_2", "}", ",", " ", "this", " ", "restaurant", " ",
          "delivers", " ", "excellence", ".", " ", "{", "closing_praise", "}">>,
        <<"Remarkable", " ", "{", "rating", "}", "-star", " ", "experience", " ", "at", " ",
          "{", "name", "}", ".", " ", "The", " ", "{", "dish", "}", " ", "showcased", " ",
          "culinary", " ", "expertise", " ", "-", " ", "{", "cuisine_praise", "}", ".", " ",
          "Wonderful", " ", "setting", " ", "for", " ", "{", "atmosphere", "}", " ", "with",
          " ", "impeccable", " ", "service", " ", "throughout", ".", " ", "Easily", " ", "{",
          "seo_keyword_1", "}", " ", "with", " ", "its", " ", "commitment", " ", "to", " ",
          "quality", ".", " ", "{", "closing_praise", "}">>
      >>
  @@
    <<"fast_casual">> :>
      <<
        <<"Great", " ", "{", "rating", "}", "-star", " ", "experience", " ", "at", " ", "{",
          "name", "}", "!", " ", "The", " ", "{", "dish", "}", " ", "was", " ", "delicious",
          " ", "and", " ", "quick", " ", "-", " ", "{", "cuisine_praise", "}", ".", " ",
          "Perfect", " ", "for", " ", "{", "atmosphere", "}", " ", "when", " ", "you", " ",
          "want", " ", "quality", " ", "food", " ", "fast", ".", " ", "Definitely", " ", "{",
          "seo_keyword_1", "}", " ", "for", " ", "the", " ", "area", "!", " ", "{",
          "closing_praise", "}">>,
        <<"Really", " ", "impressed", " ", "with", " ", "{", "name", "}", "!", " ", "The", " ",
          "{", "dish", "}", " ", "was", " ", "amazing", " ", "-", " ", "{", "cuisine_praise",
          "}", ".", " ", "Great", " ", "option", " ", "for", " ", "{", "atmosphere", "}", " ",
          "and", " ", "one", " ", "of", " ", "the", " ", "{", "seo_keyword_2", "}", " ",
          "spots", " ", "around", ".", " ", "{", "closing_praise", "}">>
      >>

\* pablos of create_sample_data (models.py:298-324)
pablos ==
    [id |-> 1,
     name |-> <<"Pablo's", " ", "Authentic", " ", "Mexican", " ", "Cantina">>,
     slug |-> "pablos-mexican",
     cuisine |-> <<"Mexican">>,
     location |-> <<"downtown", " ", "Seattle">>,
     restaurant_type |-> <<"casual">>,
     seo_keywords |->
       <<
         <<"best", " ", "Mexican", " ", "restaurant", " ", "downtown", " ", "Seattle">>,
         <<"authentic", " ", "tacos", " ", "Seattle">>,
         <<"date", " ", "night", " ", "restaurant", " ", "Seattle">>,
         <<"Mexican", " ", "food", " ", "near", " ", "me">>,
         <<"fresh", " ", "guacamole", " ", "Seattle">>
       >>,
     custom_templates |->
       <<
         <<"¡Increíble", "!", " ", "Had", " ", "a", " ", "{", "rating", "}", "-star", " ",
           "fiesta", " ", "at", " ", "{", "name", "}", "!", " ", "The", " ", "{", "dish", "}",
           " ", "was", " ", "absolutely", " ", "amazing", " ", "-", " ", "{", "cuisine_praise",
           "}", ".", " ", "Perfect", " ", "spot", " ", "for", " ", "{", "atmosphere", "}", " ",
           "and", " ", "definitely", " ", "{", "seo_keyword_1", "}", ".", " ", "The", " ", "{",
           "location", "}", " ", "location", " ", "is", " ", "so", " ", "convenient", "!", " ",
           "{", "closing_praise", "}">>,
         <<"Taco", " ", "Tuesday", " ", "just", " ", "got", " ", "better", "!", " ", "{",
           "name", "}", " ", "serves", " ", "incredible", " ", "{", "rating", "}", "-star",
           " ", "{", "cuisine", "}", " ", "food", ".", " ", "The", " ", "{", "dish", "}", " ",
           "was", " ", "spectacular", " ", "-", " ", "{", "cuisine_praise", "}", ".", " ",
           "Great", " ", "for", " ", "{", "atmosphere", "}", ",", " ", "and", " ", "honestly",
           " ", "one", " ", "of", " ", "the", " ", "{", "seo_keyword_1", "}", " ", "around",
           "!", " ", "{", "closing_praise", "}">>
       >>]

\* sophias of create_sample_data (models.py:326-350)
sophias ==
    [id |-> 2,
     name |-> <<"Sophia's", " ", "Fine", " ", "Italian", " ", "Dining">>,
     slug |-> "sophias-italian",
     cuisine |-> <<"Italian">>,
     location |-> <<"Capitol", " ", "Hill">>,
     restaurant_type |-> <<"upscale">>,
     seo_keywords |->
       <<
         <<"fine", " ", "dining", " ", "Italian", " ", "restaurant", " ", "Seattle">>,
         <<"romantic", " ", "dinner", " ", "Capitol", " ", "Hill">>,
         <<"best", " ", "pasta", " ", "Seattle">>,
         <<"Italian", " ", "wine", " ", "selection">>,
         <<"anniversary", " ", "dinner", " ", "restaurant">>
       >>,
     custom_templates |->
       <<
         <<"Exceptional", " ", "{", "rating", "}", "-star", " ", "dining", " ", "experience",
           " ", "at", " ", "{", "name", "}", ".", " ", "The", " ", "{", "dish", "}", " ",
           "was", " ", "expertly", " ", "prepared", " ", "-", " ", "{", "cuisine_praise", "}",
           ".", " ", "Perfect", " ", "ambiance", " ", "for", " ", "{", "atmosphere", "}", ",",
           " ", "truly", " ", "{", "seo_keyword_1", "}", ".", " ", "The", " ", "{", "location",
           "}", " ", "location", " ", "adds", " ", "to", " ", "its", " ", "charm", ".", " ",
           "{", "closing_praise", "}">>
       >>]

\* ---- end phrase banks ----

----------------------------------------------------------------------------
(* Strings: lower-casing, substring test, whitespace split *)

Lower(a) == IF a \in DOMAIN LowerTable THEN LowerTable[a] ELSE a

\* str.lower()
LowerText(s) == [i \in 1..Len(s) |-> Lower(s[i])]

AtomInfix(a, b) == a = b \/ <<a, b>> \in ProperInfix
AtomPrefix(a, b) == a = b \/ <<a, b>> \in ProperPrefix
AtomSuffix(a, b) == a = b \/ <<a, b>> \in ProperSuffix

\* needle occurs in hay, its first atom lying within hay[i]
MatchAt(needle, hay, i) ==
    LET n == Len(needle) IN
    /\ i + n - 1 <= Len(hay)
    /\ IF n = 1 THEN AtomInfix(needle[1], hay[i])
       ELSE /\ AtomSuffix(needle[1], hay[i])
            /\ AtomPrefix(needle[n], hay[i + n - 1])
            /\ \A j \in 2..(n - 1) : needle[j] = hay[i + j - 1]

\* the Python test `needle in hay` on two strings
Contains(needle, hay) ==
    needle = <<>> \/ \E i \in 1..Len(hay) : MatchAt(needle, hay, i)

\* len(s.split()): the number of maximal runs of non-whitespace atoms
CountTokens(s) ==
    Cardinality({i \in 1..Len(s) :
                    ~IsSpace(s[i]) /\ (i = Len(s) \/ IsSpace(s[i + 1]))})

\* len(re.findall(r'[.!?]+', s)): the number of maximal runs of . ! ?
CountSentenceEnds(s) ==
    Cardinality({i \in 1..Len(s) :
                    s[i] \in TerminalPunct /\ (i = Len(s) \/ s[i + 1] \notin TerminalPunct)})

\* str(rating) for an int
IntText(n) == <<ToString(n)>>

----------------------------------------------------------------------------
(* Restaurant accessors (models.py) *)

\* Restaurant.get_seo_keywords: the list stored by set_seo_keywords
get_seo_keywords(restaurant) == restaurant.seo_keywords

\* Restaurant.get_custom_templates: the list stored by set_custom_templates
get_custom_templates(restaurant) == restaurant.custom_templates

----------------------------------------------------------------------------
(* ReviewGenerator *)

\* dict.get(key, default) on a table keyed by strings
Lookup(table, key, default) == IF key \in DOMAIN table THEN table[key] ELSE default

\* the elements of a list, as random.choice may return them
Choices(list) == {list[i] : i \in 1..Len(list)}

\* _get_default_templates without the 'casual' fallback
DefaultTemplatesNoFallback(restaurant_type) ==
    Lookup(DefaultTemplateTable, restaurant_type, <<>>)

\* _get_default_templates: templates.get(restaurant_type, templates['casual'])
_get_default_templates(restaurant_type) ==
    Lookup(DefaultTemplateTable, restaurant_type, DefaultTemplateTable[<<"casual">>])

\* _get_cuisine_praise: the phrases random.choice may return
_get_cuisine_praise(cuisine) == Choices(Lookup(cuisine_praise, cuisine, GenericPraise))

\* _get_closing_phrase: the phrases random.choice may return
_get_closing_phrase(restaurant_type) ==
    Choices(Lookup(closing_phrases, restaurant_type, closing_phrases[<<"casual">>]))

\* the loop of lines 183-185 letting the last matching key decide
RECURSIVE LastMatchingOptions(_, _)
LastMatchingOptions(rows, dish_lower) ==
    IF rows = <<>> THEN <<>>
    ELSE IF Contains(rows[Len(rows)][1], dish_lower) THEN rows[Len(rows)][2]
    ELSE LastMatchingOptions(SubSeq(rows, 1, Len(rows) - 1), dish_lower)

\* the loop of lines 183-185: the options of the first key, in table
\* order, that occurs in dish_lower; <<>> when no key does
RECURSIVE FirstMatchingOptions(_, _)
FirstMatchingOptions(rows, dish_lower) ==
    IF rows = <<>> THEN <<>>
    ELSE IF Contains(Head(rows)[1], dish_lower) THEN Head(rows)[2]
    ELSE FirstMatchingOptions(Tail(rows), dish_lower)

\* _enhance_dish_description with the f prefix of line 188 left out
EnhanceDishLiteral(dish, cuisine) ==
    IF CountTokens(dish) > 1 THEN {dish} ELSE {<<"amazing", " ", "{", "dish", "}">>}

\* _enhance_dish_description: the renderings it may return
_enhance_dish_description(dish, cuisine) ==
    LET dish_lower == LowerText(dish)
        cuisine_enhancements == Lookup(enhancements, cuisine, <<>>)
        enhanced_options == FirstMatchingOptions(cuisine_enhancements, dish_lower)
    IN  IF enhanced_options # <<>> THEN Choices(enhanced_options)
        ELSE IF CountTokens(dish) > 1 THEN {dish}
        ELSE {<<"amazing", " ">> \o dish}

\* lines 121-122 and 142-143 with the two keywords drawn independently
SeoKeywordPairsWithRepeats(keywords, cuisine) ==
    IF keywords = <<>>
    THEN {<< <<"great", " ">> \o LowerText(cuisine) \o <<" ", "restaurant">>,
             LowerText(cuisine) \o <<" ", "food">> >>}
    ELSE {<<keywords[p[1]], keywords[p[2]]>> :
            p \in (1..Len(keywords)) \X (1..Len(keywords))}

\* lines 121-122 and 142-143: the values of seo_keyword_1 and
\* seo_keyword_2 after random.shuffle of a copy of the keyword list (only
\* elements [0] and [1] of the shuffled copy are read)
SeoKeywordPairs(keywords, cuisine) ==
    IF keywords = <<>>
    THEN {<< <<"great", " ">> \o LowerText(cuisine) \o <<" ", "restaurant">>,
             LowerText(cuisine) \o <<" ", "food">> >>}
    ELSE IF Len(keywords) = 1 THEN {<<keywords[1], keywords[1]>>}
    ELSE {<<keywords[p[1]], keywords[p[2]]>> :
            p \in {q \in (1..Len(keywords)) \X (1..Len(keywords)) : q[1] # q[2]}}

\* _prepare_template_variables: the dicts it may return
_prepare_template_variables(restaurant, rating, favorite_dish, atmosphere) ==
    {[name |-> restaurant.name,
      rating |-> IntText(rating),
      dish |-> enhanced_dish,
      favorite_dish |-> enhanced_dish,
      atmosphere |-> atmosphere,
      location |-> restaurant.location,
      cuisine |-> restaurant.cuisine,
      cuisine_praise |-> praise,
      seo_keyword_1 |-> seo[1],
      seo_keyword_2 |-> seo[2],
      closing_praise |-> closing_phrase,
      restaurant_type |-> restaurant.restaurant_type] :
        seo \in SeoKeywordPairs(get_seo_keywords(restaurant), restaurant.cuisine),
        praise \in _get_cuisine_praise(restaurant.cuisine),
        closing_phrase \in _get_closing_phrase(restaurant.restaurant_type),
        enhanced_dish \in _enhance_dish_description(favorite_dish, restaurant.cuisine)}

\* index of the first atom of s at or after position from that is in set,
\* 0 if there is none
FirstIn(s, from, set) ==
    IF \E i \in from..Len(s) : s[i] \in set
    THEN CHOOSE i \in from..Len(s) : s[i] \in set /\ \A j \in from..(i - 1) : s[j] \notin set
    ELSE 0

\* template.format(**template_vars) for templates whose replacement fields
\* are plain names (no conversion, format spec, attribute or index):
\* "{{" and "}}" are literal braces, "{name}" is replaced by the value of
\* name, and the first malformed or unknown field raises
RECURSIVE Format(_, _)
Format(template, template_vars) ==
    LET brace == FirstIn(template, 1, {"{", "}"}) IN
    IF brace = 0 THEN [raised |-> "none", text |-> template]
    ELSE LET literal == SubSeq(template, 1, brace - 1)
             Then(value, next) ==
                 LET r == Format(SubSeq(template, next, Len(template)), template_vars) IN
                 IF r.raised = "none"
                 THEN [raised |-> "none", text |-> literal \o value \o r.text]
                 ELSE r
             doubled == brace < Len(template) /\ template[brace + 1] = template[brace]
         IN
         IF doubled THEN Then(<<template[brace]>>, brace + 2)
         ELSE IF template[brace] = "}" THEN [raised |-> "ValueError", text |-> <<>>]
         ELSE LET close == FirstIn(template, brace + 1, {"}"})
                  field == SubSeq(template, brace + 1, close - 1)
              IN  IF close = 0 \/ \E i \in 1..Len(field) : field[i] = "{"
                  THEN [raised |-> "ValueError", text |-> <<>>]
                  ELSE IF field = <<>>
                  THEN [raised |-> "IndexError", text |-> <<>>]
                  ELSE IF Len(field) = 1 /\ field[1] \in DOMAIN template_vars
                  THEN Then(template_vars[field[1]], close + 1)
                  ELSE [raised |-> "KeyError", text |-> <<>>]

\* KeywordsFound comparing the keyword as written
RECURSIVE KeywordsFoundAsWritten(_, _)
KeywordsFoundAsWritten(seo_keywords, review_lower) ==
    IF seo_keywords = <<>> THEN <<>>
    ELSE IF Contains(Head(seo_keywords), review_lower)
         THEN <<Head(seo_keywords)>> \o KeywordsFoundAsWritten(Tail(seo_keywords), review_lower)
         ELSE KeywordsFoundAsWritten(Tail(seo_keywords), review_lower)

\* the loop of lines 226-228
RECURSIVE KeywordsFound(_, _)
KeywordsFound(seo_keywords, review_lower) ==
    IF seo_keywords = <<>> THEN <<>>
    ELSE IF Contains(LowerText(Head(seo_keywords)), review_lower)
         THEN <<Head(seo_keywords)>> \o KeywordsFound(Tail(seo_keywords), review_lower)
         ELSE KeywordsFound(Tail(seo_keywords), review_lower)

Max(a, b) == IF a >= b THEN a ELSE b

\* _analyze_review with <= in place of < in line 234
AnalyzeReviewInclusive(review_text, seo_keywords) ==
    LET word_count == CountTokens(review_text)
        keywords_found == KeywordsFound(seo_keywords, LowerText(review_text))
        sentences == CountSentenceEnds(review_text)
        readability == IF word_count <= 20 * Max(sentences, 1) THEN "Good" ELSE "Complex"
    IN  [word_count |-> word_count,
         seo_keywords_used |-> Len(keywords_found),
         keywords_found |-> keywords_found,
         readability |-> readability,
         sentences |-> sentences]

_analyze_review(review_text, seo_keywords) ==
    LET word_count == CountTokens(review_text)
        keywords_found == KeywordsFound(seo_keywords, LowerText(review_text))
        sentences == CountSentenceEnds(review_text)
        \* word_count / max(sentences, 1) < 20
        readability == IF word_count < 20 * Max(sentences, 1) THEN "Good" ELSE "Complex"
    IN  [word_count |-> word_count,
         seo_keywords_used |-> Len(keywords_found),
         keywords_found |-> keywords_found,
         readability |-> readability,
         sentences |-> sentences]

\* templates.index(template) + 1
TemplateNumber(templates, template) ==
    CHOOSE i \in 1..Len(templates) :
        templates[i] = template /\ \A j \in 1..(i - 1) : templates[j] # template

\* TemplatesOf reading the defaults whatever the restaurant has stored
TemplatesOfDefaultsOnly(restaurant) ==
    _get_default_templates(restaurant.restaurant_type)

\* lines 86-89
TemplatesOf(restaurant) ==
    IF get_custom_templates(restaurant) # <<>> THEN get_custom_templates(restaurant)
    ELSE _get_default_templates(restaurant.restaurant_type)

\* lines 99-115 for one choice of template and variables: the record
\* returned, or the exception raised by template.format
Compose(restaurant, templates, template, template_vars) ==
    LET formatted == Format(template, template_vars) IN
    IF formatted.raised # "none"
    THEN [raised |-> formatted.raised]
    ELSE LET review_text == _enhance_review(formatted.text)
             analysis == _analyze_review(review_text, get_seo_keywords(restaurant))
         IN  [raised |-> "none",
              review |-> review_text,
              word_count |-> analysis.word_count,
              seo_count |-> analysis.seo_keywords_used,
              seo_keywords |-> analysis.keywords_found,
              readability_score |-> analysis.readability,
              template_used |-> TemplateNumber(templates, template)]

\* generate_review with a check of the rating in front
GenerateReviewGated(restaurant, rating, favorite_dish, atmosphere) ==
    IF rating \notin {4, 5} THEN {[raised |-> "InvalidRating"]}
    ELSE LET templates == TemplatesOf(restaurant) IN
         {Compose(restaurant, templates, template, template_vars) :
            template \in Choices(templates),
            template_vars \in
                _prepare_template_variables(restaurant, rating, favorite_dish, atmosphere)}

\* generate_review: every outcome the random choices allow
generate_review(restaurant, rating, favorite_dish, atmosphere) ==
    LET templates == TemplatesOf(restaurant) IN
    \* random.choice raises IndexError on an empty list
    IF templates = <<>> THEN {[raised |-> "IndexError"]}
    ELSE
    {Compose(restaurant, templates, template, template_vars) :
        template \in Choices(templates),
        template_vars \in
            _prepare_template_variables(restaurant, rating, favorite_dish, atmosphere)}

----------------------------------------------------------------------------
(* Restaurants beyond the two sample rows *)

\* a row as Restaurant.create_from_google_places makes it when Google gives
\* no cuisine, location, type or keywords (models.py:137-139, 152)
imported ==
    [id |-> 3,
     name |-> <<"Corner", " ", "Cafe">>,
     slug |-> "corner-cafe",
     cuisine |-> <<"Restaurant">>,
     location |-> <<"Local", " ", "Area">>,
     restaurant_type |-> <<"casual">>,
     seo_keywords |-> <<>>,
     custom_templates |-> <<>>]

\* a tier and a cuisine outside the phrase banks, one keyword
bistro ==
    [id |-> 4,
     name |-> <<"Le", " ", "Bistro">>,
     slug |-> "le-bistro",
     cuisine |-> <<"Fusion">>,
     location |-> <<"Uptown">>,
     restaurant_type |-> <<"bistro">>,
     seo_keywords |-> << <<"Best", " ", "Tacos", " ", "Uptown">> >>,
     custom_templates |-> <<>>]

\* fast_casual tier, two keywords, the second one a part of a dish name
express ==
    [id |-> 5,
     name |-> <<"Thai", " ", "Express">>,
     slug |-> "thai-express",
     cuisine |-> <<"Thai">>,
     location |-> <<"Midtown">>,
     restaurant_type |-> <<"fast_casual">>,
     seo_keywords |-> << <<"quick", " ", "Thai", " ", "lunch">>, <<"TACO">> >>,
     custom_templates |-> <<>>]

\* own templates: keywords first and last, doubled braces, untidy spacing
tidy ==
    [id |-> 6,
     name |-> <<"Taco", " ", "Stand">>,
     slug |-> "taco-stand",
     cuisine |-> <<"Mexican">>,
     location |-> <<"Downtown">>,
     restaurant_type |-> <<"fast_casual">>,
     seo_keywords |-> << <<"street", " ", "tacos">>, <<"amazing">>, <<"late", " ", "night">> >>,
     custom_templates |->
       << <<"{", "seo_keyword_1", "}", " ", "at", " ", "{", "name", "}", " ", ".", " ",
            "the", " ", "{", "dish", "}", "\t", " ", "for", " ", "{", "atmosphere", "}">>,
          <<".", " ", "{", "{", "{", "rating", "}", "}", "}", " ", "stars", " ", "for",
            " ", "{", "favorite_dish", "}", " ", "?", " ", "{", "seo_keyword_2", "}">> >>]

\* own templates and no keywords: the placeholders fall back on the cuisine
plain ==
    [tidy EXCEPT !.id = 7, !.slug = "plain-tacos", !.seo_keywords = <<>>,
                 !.custom_templates =
                    << <<"{", "seo_keyword_1", "}", ",", " ", "{", "seo_keyword_2", "}">> >>]

\* own templates that str.format rejects: an unknown name, a lone brace, an
\* empty field
broken ==
    [tidy EXCEPT !.id = 8, !.slug = "broken-templates",
                 !.custom_templates =
                    << <<"Ask", " ", "for", " ", "{", "server", "}", "!">>,
                       <<"Loved", " ", "{", "name", "}", " ", "}">>,
                       <<"{", "}", " ", "was", " ", "great">>,
                       <<"Try", " ", "the", " ", "{", "dish">> >>]

\* one own template of a single sentence: eighteen words and the dish
wordy ==
    [bistro EXCEPT !.id = 9, !.slug = "long-table", !.seo_keywords = <<>>,
                   !.custom_templates =
                      << <<"we", " ", "came", " ", "here", " ", "on", " ", "a", " ", "quiet", " ",
                           "weekday", " ", "evening", " ", "and", " ", "ordered", " ", "the", " ",
                           "{", "dish", "}", " ", "with", " ", "a", " ", "side", " ", "of", " ",
                           "rice", " ", "and", " ", "beans">> >>]

\* the same keyword stored twice
twins ==
    [express EXCEPT !.id = 10, !.slug = "thai-twins",
                    !.seo_keywords = << <<"Thai", " ", "food">>, <<"Thai", " ", "food">> >>]

NoText == <<>>
Tacos == <<"tacos">>
FishTacos == <<"Fish", " ", "Tacos">>
Margaritas == <<"margaritas">>
Pasta == <<"pasta">>
DateNight == <<"date", " ", "night">>
FamilyDinner == <<"family", " ", "dinner">>
BurgerFries == <<"burger", ",", " ", "fries">>
TacosQuesoChips == <<"tacos", ",", " ", "queso", ",", " ", "chips">>

\* the arguments of a generate_review call
Call(restaurant, rating, favorite_dish, atmosphere) ==
    [restaurant |-> restaurant, rating |-> rating,
     favorite_dish |-> favorite_dish, atmosphere |-> atmosphere]

\* no outcome yet
Pending == [raised |-> "pending"]

\* no generator object is kept outside the generator harness
NoBanks == <<>>

----------------------------------------------------------------------------
(* GeminiReviewPolisher (gemini_polisher.py) *)

\* len(prompt.split()) for the prompt of _create_polish_prompt: its fixed
\* words plus those of the restaurant name and of the rough review
PromptFixedWords == 95

PromptWords(rough_review, restaurant_name) ==
    PromptFixedWords + CountTokens(restaurant_name) + CountTokens(rough_review)

\* what response.text of the Gemini call may be
GeminiReplies ==
    {<<" ", "Great", " ", "burger", " ", "and", " ", "best", " ", "burgers", ".", "\t">>,
     <<"Nice", " ", "place">>,
     <<>>}

\* what self.client.generate_content(prompt) and response.text give: a
\* reply text, or a raise (network error, quota, blocked response)
GeminiOutcomes ==
    {[raised |-> "none", text |-> reply] : reply \in GeminiReplies}
    \cup {[raised |-> "Exception"]}

\* PolishOutcome losing the text in the except branch
PolishOutcomeTextLost(has_client, gemini, rough_review, restaurant_name) ==
    IF has_client /\ gemini.raised = "none"
    THEN LET polished_text == Strip(gemini.text) IN
         [polished_review |-> polished_text,
          original_review |-> rough_review,
          polished |-> TRUE,
          cost_estimate |->
              13 * (PromptWords(rough_review, restaurant_name) + CountTokens(polished_text))]
    ELSE [polished_review |-> IF has_client THEN <<>> ELSE rough_review,
          original_review |-> rough_review,
          polished |-> FALSE,
          cost_estimate |-> 0]

\* polish_review for one outcome of the external call.  cost_estimate is in
\* units of 0.0000000375, i.e. 13 * (words of the prompt + words of the
\* polished text)
PolishOutcome(has_client, gemini, rough_review, restaurant_name) ==
    LET unpolished ==
            [polished_review |-> rough_review,
             original_review |-> rough_review,
             polished |-> FALSE,
             cost_estimate |-> 0]
    IN  \* lines 34-41: no client, the external service is not called
        IF ~has_client THEN unpolished
        \* lines 63-72: the except branch returns the original
        ELSE IF gemini.raised # "none" THEN unpolished
        ELSE LET polished_text == Strip(gemini.text) IN
             [polished_review |-> polished_text,
              original_review |-> rough_review,
              polished |-> TRUE,
              cost_estimate |->
                  13 * (PromptWords(rough_review, restaurant_name)
                        + CountTokens(polished_text))]

\* polish_review: every result it may return
polish_review(has_client, rough_review, restaurant_name) ==
    {PolishOutcome(has_client, gemini, rough_review, restaurant_name) :
        gemini \in GeminiOutcomes}

----------------------------------------------------------------------------
(* Request handlers (app.py) *)

\* own template without phrase-bank placeholders, one keyword
diner ==
    [id |-> 1,
     name |-> <<"Joe's", " ", "Diner">>,
     slug |-> "joes-diner",
     cuisine |-> <<"American">>,
     location |-> <<"Midtown">>,
     restaurant_type |-> <<"casual">>,
     seo_keywords |-> << <<"Best", " ", "burgers">> >>,
     custom_templates |->
       << <<"{", "rating", "}", " ", "stars", " ", "for", " ", "the", " ", "{", "dish", "}",
            " ", "at", " ", "{", "name", "}", ",", " ", "{", "seo_keyword_1", "}">> >>]

\* a second row whose templates str.format rejects
faulty == [broken EXCEPT !.id = 2, !.custom_templates = <<broken.custom_templates[1]>>]

Burger == <<"burger">>
LovedIt == <<" ", "Loved", " ", "it", ".", " ">>
Email == <<"ann@mail">>
Phone == <<"555-0100">>

\* the rating field of a request as it arrives: decimal text, or text that
\* int() rejects
RawRatings == {ToString(n) : n \in MinRating..MaxRating} \cup {"", "five"}

\* int(raw): the integer written by raw, or a raise
ParseInt(raw) ==
    IF \E n \in MinRating..MaxRating : ToString(n) = raw
    THEN [raised |-> "none",
          value |-> CHOOSE n \in MinRating..MaxRating : ToString(n) = raw]
    ELSE [raised |-> "ValueError"]

\* Restaurant.query.filter_by(slug=...).first(): the row in a one-element
\* sequence, <<>> for None
RestaurantBySlug(slug) ==
    SelectSeq(restaurants, LAMBDA r : r.slug = slug)

\* generate_review on the arguments the handlers can pass, computed once
HandlerCalls ==
    {Call(r, n, d, a) : r \in {diner, faulty}, n \in MinRating..MaxRating,
                        d \in {NoText, Burger}, a \in {NoText, DateNight}}

GeneratedFor == [c \in HandlerCalls |->
                    generate_review(c.restaurant, c.rating, c.favorite_dish, c.atmosphere)]

NotInvoked == [called |-> FALSE]
NotPolished == [called |-> FALSE]
Invocation(c, outcome) == [called |-> TRUE, call |-> c, result |-> outcome]

\* no /api/create-restaurant request has arrived
NoImports == [i \in 1..MaxImports |-> [pc |-> "idle"]]

\* the state of the tables and of the last request before any request
AppIdle ==
    /\ imports = NoImports
    /\ restaurants = <<diner, faulty>>
    /\ reviews = <<>>
    /\ gemini_key = FALSE
    /\ request = [route |-> "none"]
    /\ invoked = NotInvoked
    /\ polish = NotPolished
    /\ response = [status |-> 0]

ErrorResponse(status, error) == [status |-> status, success |-> FALSE, error |-> error]

\* SuccessBody taking word_count from the generator's record
SuccessBodyRoughCount(generated, polish_result) ==
    [status |-> 200,
     success |-> TRUE,
     review |-> polish_result.polished_review,
     word_count |-> generated.word_count,
     seo_count |-> generated.seo_count,
     seo_keywords |-> generated.seo_keywords,
     personalized |-> FALSE,
     uniqueness_score |-> 9,
     ai_polished |-> polish_result.polished,
     cost_estimate |-> polish_result.cost_estimate,
     original_review |-> IF polish_result.polished THEN <<generated.review>> ELSE <<>>]

\* lines 170-191: the success body built from the generator's record and
\* the polisher's result.  uniqueness_score is in tenths; original_review
\* is <<rough_review>> or <<>> for None
SuccessBody(generated, polish_result) ==
    LET rough_review == generated.review
        final_review == polish_result.polished_review
    IN  [status |-> 200,
         success |-> TRUE,
         review |-> final_review,
         word_count |-> CountTokens(final_review),
         seo_count |-> generated.seo_count,
         seo_keywords |-> generated.seo_keywords,
         personalized |-> FALSE,
         uniqueness_score |-> 9,
         ai_polished |-> polish_result.polished,
         cost_estimate |-> polish_result.cost_estimate,
         original_review |-> IF polish_result.polished THEN <<rough_review>> ELSE <<>>]

\* the request fields as they may arrive
Slugs == {"joes-diner", "broken-templates", "nowhere"}
DishFields == {NoText, <<" ">> \o Burger}
AtmosphereFields == {NoText, DateNight}
FinalReviewFields == {NoText, LovedIt}
ContactFields == {NoText, Email, Phone}
DetailFields == {NoText, <<"our", " ", "anniversary", " ">>}

\* the special_detail and standout_detail fields sent along with a rating
\* field: every combination with a rating of five, none with another
DetailPairs(raw) ==
    IF raw = "5" THEN DetailFields \X DetailFields ELSE {<<NoText, NoText>>}

\* generate_review_api: POST /generate-review/<restaurant_slug>
GenerateReviewApi ==
    \E slug \in Slugs, raw \in RawRatings :
        LET found == RestaurantBySlug(slug)
            restaurant == found[1]
            parsed == ParseInt(raw)
            rating == parsed.value
            Refused(status, error) ==
                /\ request' = [route |-> "generate-review"]
                /\ response' = ErrorResponse(status, error)
                /\ invoked' = NotInvoked
                /\ polish' = NotPolished
        IN
        /\ UNCHANGED <<restaurants, reviews, gemini_key, imports, finisherVars, generatorVars>>
        /\ IF found = <<>> THEN Refused(404, "Restaurant not found")
           ELSE IF parsed.raised # "none" THEN Refused(500, "Failed to generate review")
           ELSE \E dish_field \in DishFields, atmosphere_field \in AtmosphereFields :
             LET favorite_dish == Strip(dish_field)
                 atmosphere == Strip(atmosphere_field)
                 c == Call(restaurant, rating, favorite_dish, atmosphere)
             IN
             IF ~(1 <= rating /\ rating <= 5) THEN Refused(400, "Invalid rating")
             ELSE IF favorite_dish = <<>> \/ atmosphere = <<>>
             THEN Refused(400, "Missing required fields")
             \* the six-argument call of lines 157-164 raises TypeError
             \* (generate_review takes four), whatever the two details are,
             \* so the call that runs is the one of line 168
             ELSE \E details \in DetailPairs(raw), generated \in GeneratedFor[c] :
                    /\ request' = [route |-> "generate-review",
                                   special_detail |-> Strip(details[1]),
                                   standout_detail |-> Strip(details[2])]
                    /\ invoked' = Invocation(c, generated)
                    /\ IF generated.raised # "none"
                       THEN /\ response' = ErrorResponse(500, "Failed to generate review")
                            /\ polish' = NotPolished
                       ELSE \E gemini \in IF gemini_key THEN GeminiOutcomes
                                          ELSE {[raised |-> "not called"]} :
                              LET polish_result ==
                                      PolishOutcome(gemini_key, gemini, generated.review,
                                                    restaurant.name)
                              IN  /\ polish' = [called |-> TRUE,
                                                has_client |-> gemini_key,
                                                gemini |-> gemini.raised]
                                  /\ response' = SuccessBody(generated, polish_result)

\* the next primary key of table reviews
NextReviewId == Len(reviews) + 1

\* PublicReview counting with len(final_review) in place of
\* len(final_review.split())
PublicReviewLengthCount(restaurant, rating, favorite_dish, atmosphere, final_review, word_count) ==
    [id |-> NextReviewId,
     restaurant_id |-> restaurant.id,
     rating |-> rating,
     review_type |-> "public",
     favorite_dish |-> favorite_dish,
     atmosphere |-> atmosphere,
     generated_review |-> final_review,
     word_count |-> Len(final_review),
     requires_followup |-> FALSE,
     followup_completed |-> FALSE,
     status |-> "completed",
     updated_at |-> 0]

\* lines 225-234: the row of a public review.  A column that a row does not
\* carry is NULL.  updated_at (models.py:246) is kept as the number of UPDATE
\* statements the row has taken: each one sets the column to a new instant.
PublicReview(restaurant, rating, favorite_dish, atmosphere, final_review, word_count) ==
    [id |-> NextReviewId,
     restaurant_id |-> restaurant.id,
     rating |-> rating,
     review_type |-> "public",
     favorite_dish |-> favorite_dish,
     atmosphere |-> atmosphere,
     generated_review |-> final_review,
     word_count |-> word_count,
     requires_followup |-> FALSE,
     followup_completed |-> FALSE,
     status |-> "completed",
     updated_at |-> 0]

\* lines 262-277: the row of a private feedback
PrivateFeedback(restaurant, rating, issue_area, feedback_details, contact_info) ==
    LET row == [id |-> NextReviewId,
                restaurant_id |-> restaurant.id,
                rating |-> rating,
                review_type |-> "private",
                issue_area |-> issue_area,
                feedback_details |-> feedback_details,
                requires_followup |-> TRUE,
                followup_completed |-> FALSE,
                status |-> "completed",
                updated_at |-> 0]
        With(column) == [f \in DOMAIN row \cup {column} |->
                            IF f = column THEN contact_info ELSE row[f]]
    IN  IF contact_info = <<>> THEN row
        ELSE IF Contains(<<"@">>, contact_info) THEN With("customer_email")
        ELSE With("customer_phone")

\* submit_review: POST /submit-review/<restaurant_slug>, for a table of at
\* most limit rows and form fields drawn from the given sets
SubmitReviewWith(limit, raws, dish_fields, final_fields, contact_fields) ==
    \E slug \in Slugs, raw \in raws :
        LET found == RestaurantBySlug(slug)
            restaurant == found[1]
            parsed == ParseInt(raw)
            rating == parsed.value
        IN
        /\ Len(reviews) < limit
        /\ polish' = NotPolished
        /\ UNCHANGED <<restaurants, gemini_key, imports, finisherVars, generatorVars>>
        /\ IF found = <<>>
           THEN /\ request' = [route |-> "submit-review"]
                /\ response' = [status |-> 404]
                /\ invoked' = NotInvoked
                /\ UNCHANGED reviews
           ELSE IF parsed.raised # "none"
           THEN /\ request' = [route |-> "submit-review"]
                /\ response' = [status |-> 500]
                /\ invoked' = NotInvoked
                /\ UNCHANGED reviews
           ELSE IF rating >= 4
           THEN \E dish_field \in dish_fields, final_field \in final_fields :
                  LET favorite_dish == Strip(dish_field)
                      atmosphere == Strip(DateNight)
                      final_review == Strip(final_field)
                      c == Call(restaurant, rating, favorite_dish, atmosphere)
                  IN
                  /\ request' = [route |-> "submit-review",
                                 rating |-> rating,
                                 favorite_dish_final |-> dish_field,
                                 atmosphere |-> DateNight,
                                 final_review |-> final_field]
                  /\ IF final_review = <<>>
                     THEN \E generated \in GeneratedFor[c] :
                            /\ invoked' = Invocation(c, generated)
                            /\ IF generated.raised # "none"
                               THEN /\ response' = [status |-> 500]
                                    /\ UNCHANGED reviews
                               ELSE /\ reviews' = Append(reviews,
                                           PublicReview(restaurant, rating, favorite_dish,
                                                        atmosphere, generated.review,
                                                        generated.word_count))
                                    /\ response' = [status |-> 200, page |-> "Thank You!"]
                     ELSE /\ invoked' = NotInvoked
                          /\ reviews' = Append(reviews,
                                 PublicReview(restaurant, rating, favorite_dish, atmosphere,
                                              final_review, CountTokens(final_review)))
                          /\ response' = [status |-> 200, page |-> "Thank You!"]
           ELSE \E contact_field \in contact_fields :
                  LET issue_area == Strip(<<"service">>)
                      feedback_details == Strip(<<"slow">>)
                      contact_info == Strip(contact_field)
                  IN
                  /\ request' = [route |-> "submit-review", rating |-> rating]
                  /\ invoked' = NotInvoked
                  /\ reviews' = Append(reviews,
                         PrivateFeedback(restaurant, rating, issue_area, feedback_details,
                                         contact_info))
                  /\ response' = [status |-> 200, page |-> "Feedback Sent!"]

\* submit_review adding the row to the session before the text is generated
SubmitReviewRowFirst ==
    \E slug \in Slugs, raw \in RawRatings :
        LET found == RestaurantBySlug(slug)
            restaurant == found[1]
            parsed == ParseInt(raw)
            rating == parsed.value
        IN
        /\ Len(reviews) < MaxReviews
        /\ polish' = NotPolished
        /\ UNCHANGED <<restaurants, gemini_key, imports, finisherVars, generatorVars>>
        /\ IF found = <<>>
           THEN /\ request' = [route |-> "submit-review"]
                /\ response' = [status |-> 404]
                /\ invoked' = NotInvoked
                /\ UNCHANGED reviews
           ELSE IF parsed.raised # "none"
           THEN /\ request' = [route |-> "submit-review"]
                /\ response' = [status |-> 500]
                /\ invoked' = NotInvoked
                /\ UNCHANGED reviews
           ELSE IF rating >= 4
           THEN \E dish_field \in DishFields, final_field \in FinalReviewFields :
                  LET favorite_dish == Strip(dish_field)
                      atmosphere == Strip(DateNight)
                      final_review == Strip(final_field)
                      c == Call(restaurant, rating, favorite_dish, atmosphere)
                  IN
                  /\ request' = [route |-> "submit-review",
                                 rating |-> rating,
                                 favorite_dish_final |-> dish_field,
                                 atmosphere |-> DateNight,
                                 final_review |-> final_field]
                  /\ IF final_review = <<>>
                     THEN \E generated \in GeneratedFor[c] :
                            /\ invoked' = Invocation(c, generated)
                            /\ IF generated.raised # "none"
                               THEN /\ response' = [status |-> 500]
                                    /\ reviews' = Append(reviews,
                                           PublicReview(restaurant, rating, favorite_dish,
                                                        atmosphere, <<>>, 0))
                               ELSE /\ reviews' = Append(reviews,
                                           PublicReview(restaurant, rating, favorite_dish,
                                                        atmosphere, generated.review,
                                                        generated.word_count))
                                    /\ response' = [status |-> 200, page |-> "Thank You!"]
                     ELSE /\ invoked' = NotInvoked
                          /\ reviews' = Append(reviews,
                                 PublicReview(restaurant, rating, favorite_dish, atmosphere,
                                              final_review, CountTokens(final_review)))
                          /\ response' = [status |-> 200, page |-> "Thank You!"]
           ELSE \E contact_field \in ContactFields :
                  LET issue_area == Strip(<<"service">>)
                      feedback_details == Strip(<<"slow">>)
                      contact_info == Strip(contact_field)
                  IN
                  /\ request' = [route |-> "submit-review", rating |-> rating]
                  /\ invoked' = NotInvoked
                  /\ reviews' = Append(reviews,
                         PrivateFeedback(restaurant, rating, issue_area, feedback_details,
                                         contact_info))
                  /\ response' = [status |-> 200, page |-> "Feedback Sent!"]

SubmitReview ==
    SubmitReviewWith(MaxReviews, RawRatings, DishFields, FinalReviewFields, ContactFields)

Init ==
    /\ restaurants = <<diner, faulty>>
    /\ reviews = <<>>
    /\ gemini_key \in BOOLEAN
    /\ request = [route |-> "none"]
    /\ invoked = NotInvoked
    /\ polish = NotPolished
    /\ response = [status |-> 0]
    /\ imports = NoImports
    /\ text = <<>> /\ prev = <<>> /\ passes = 0
    /\ call = Call(imported, 5, NoText, NoText)
    /\ result = Pending
    /\ banks = NoBanks

Next == GenerateReviewApi \/ SubmitReview

Spec == Init /\ [][Next]_vars

----------------------------------------------------------------------------
(* Feedback follow-up and the dashboard counters (app.py:303-431) *)

\* the rating fields of the submissions: a feedback, a review, a text that
\* int() rejects
FeedbackRatings == {"3", "4", "five"}

\* respond_to_feedback flipping the flag
ToggleFollowedUp(row) ==
    [row EXCEPT !.followup_completed = ~@, !.updated_at = @ + 1]

\* lines 421-425: review.followup_completed = True and the commit.  The
\* session writes an UPDATE only when the value differs from the loaded one,
\* and an UPDATE sets updated_at anew (onupdate, models.py:246).
MarkFollowedUp(row) ==
    IF row.followup_completed THEN row
    ELSE [row EXCEPT !.followup_completed = TRUE, !.updated_at = @ + 1]

\* Review.query.filter_by(id=review_id, restaurant_id=...).first(): the
\* positions of the matching rows (id is the primary key: at most one)
ReviewOf(review_id, restaurant_id) ==
    {k \in 1..Len(reviews) : /\ reviews[k].id = review_id
                             /\ reviews[k].restaurant_id = restaurant_id}

\* respond_to_feedback: POST /dashboard/<slug>/feedback/<review_id>/respond
RespondToFeedback ==
    \E slug \in Slugs, review_id \in 1..(MaxFeedbackRows + 1) :
        LET found == RestaurantBySlug(slug) IN
        /\ request' = [route |-> "respond", slug |-> slug, review_id |-> review_id]
        /\ invoked' = NotInvoked
        /\ polish' = NotPolished
        /\ UNCHANGED <<restaurants, gemini_key, imports, finisherVars, generatorVars>>
        /\ IF found = <<>>
           THEN /\ response' = ErrorResponse(404, "Restaurant not found")
                /\ UNCHANGED reviews
           ELSE IF ReviewOf(review_id, found[1].id) = {}
           THEN /\ response' = ErrorResponse(404, "Review not found")
                /\ UNCHANGED reviews
           ELSE LET k == CHOOSE k \in ReviewOf(review_id, found[1].id) : TRUE IN
                /\ reviews' = [reviews EXCEPT ![k] = MarkFollowedUp(@)]
                /\ response' = [status |-> 200, success |-> TRUE,
                                message |-> "Feedback marked as resolved"]

\* line 321
total_reviews(restaurant_id) ==
    Cardinality({k \in 1..Len(reviews) : reviews[k].restaurant_id = restaurant_id})

\* line 322
positive_reviews(restaurant_id) ==
    Cardinality({k \in 1..Len(reviews) : /\ reviews[k].restaurant_id = restaurant_id
                                         /\ reviews[k].rating >= 4})

\* the count of line 323 with < in place of <=
NegativeBelowThree(restaurant_id) ==
    Cardinality({k \in 1..Len(reviews) : /\ reviews[k].restaurant_id = restaurant_id
                                         /\ reviews[k].rating < 3})

\* line 323
negative_feedback(restaurant_id) ==
    Cardinality({k \in 1..Len(reviews) : /\ reviews[k].restaurant_id = restaurant_id
                                         /\ reviews[k].rating <= 3})

\* lines 324-328
pending_followups(restaurant_id) ==
    Cardinality({k \in 1..Len(reviews) : /\ reviews[k].restaurant_id = restaurant_id
                                         /\ reviews[k].requires_followup
                                         /\ ~reviews[k].followup_completed})

\* dashboard: GET /dashboard and GET /dashboard/<restaurant_slug> ("" stands
\* for the route without a slug, which takes the first restaurant)
Dashboard ==
    \E slug \in Slugs \cup {""} :
        LET found == IF slug = "" THEN SubSeq(restaurants, 1, 1) ELSE RestaurantBySlug(slug) IN
        /\ request' = [route |-> "dashboard", slug |-> slug]
        /\ invoked' = NotInvoked
        /\ polish' = NotPolished
        /\ UNCHANGED <<restaurants, reviews, gemini_key, imports, finisherVars, generatorVars>>
        /\ IF found = <<>>
           THEN response' = [status |-> 302, location |-> "home"]
           ELSE response' = [status |-> 200, page |-> "dashboard",
                             restaurant_id |-> found[1].id,
                             total_reviews |-> total_reviews(found[1].id),
                             positive_reviews |-> positive_reviews(found[1].id),
                             negative_feedback |-> negative_feedback(found[1].id),
                             pending_followups |-> pending_followups(found[1].id)]

SubmitFeedbackForm ==
    SubmitReviewWith(MaxFeedbackRows, FeedbackRatings, {NoText}, {LovedIt}, {NoText})

FeedbackInit ==
    /\ AppIdle
    /\ text = <<>> /\ prev = <<>> /\ passes = 0
    /\ call = Call(imported, 5, NoText, NoText)
    /\ result = Pending
    /\ banks = NoBanks

FeedbackNext == SubmitFeedbackForm \/ RespondToFeedback \/ Dashboard

FeedbackSpec == FeedbackInit /\ [][FeedbackNext]_vars

----------------------------------------------------------------------------
(* Settings: POST /dashboard/<slug>/settings/update (app.py:368-407) and   *)
(* the generate_review call that follows it                                *)

\* a restaurants row with the settings columns of models.py:41-59 at the
\* values of a new row, and updated_at (models.py:64) kept as the number of
\* UPDATE statements the row has taken
WithSettings(row) ==
    row @@ [specialties |-> <<>>, brand_voice |-> "", auto_sms_enabled |-> FALSE,
            sms_delay_hours |-> 2, updated_at |-> 0]

OwnTemplate ==
    <<"Loved", " ", "the", " ", "{", "dish", "}", " ", "at", " ", "{", "name", "}">>

\* the JSON bodies of the requests: a keyword list together with the other
\* settings and with keys the handler does not read, an empty template
\* list, and a template list together with an empty keyword list
SettingsPayloads ==
    {[seo_keywords |-> << <<"late", " ", "night">>, <<"Best", " ", "burger">> >>,
      specialties |-> <<Burger>>, brand_voice |-> "warm", auto_sms_enabled |-> TRUE,
      sms_delay_hours |-> 4, cuisine |-> <<"Thai">>, custom_templates |-> <<OwnTemplate>>],
     [templates |-> <<>>],
     [templates |-> <<OwnTemplate>>, seo_keywords |-> <<>>]}

\* Restaurant.set_specialties (models.py:78-80)
set_specialties(row, specialties_list) == [row EXCEPT !.specialties = specialties_list]

\* Restaurant.set_seo_keywords (models.py:89-91)
set_seo_keywords(row, keywords_list) == [row EXCEPT !.seo_keywords = keywords_list]

\* set_custom_templates keeping the stored list when handed an empty one
SetCustomTemplatesUnlessEmpty(row, templates_list) ==
    IF templates_list = <<>> THEN row ELSE [row EXCEPT !.custom_templates = templates_list]

\* Restaurant.set_custom_templates (models.py:109-111)
set_custom_templates(row, templates_list) == [row EXCEPT !.custom_templates = templates_list]

\* lines 379-400: the assignments, in the order of the code
ApplySettings(row, data) ==
    LET r1 == IF "specialties" \in DOMAIN data
              THEN set_specialties(row, data.specialties) ELSE row
        r2 == IF "seo_keywords" \in DOMAIN data
              THEN set_seo_keywords(r1, data.seo_keywords) ELSE r1
        r3 == IF "templates" \in DOMAIN data
              THEN set_custom_templates(r2, data.templates) ELSE r2
        r4 == IF "brand_voice" \in DOMAIN data
              THEN [r3 EXCEPT !.brand_voice = data.brand_voice] ELSE r3
        r5 == IF "auto_sms_enabled" \in DOMAIN data
              THEN [r4 EXCEPT !.auto_sms_enabled = data.auto_sms_enabled] ELSE r4
    IN  IF "sms_delay_hours" \in DOMAIN data
        THEN [r5 EXCEPT !.sms_delay_hours = data.sms_delay_hours] ELSE r5

\* line 402: db.session.commit() writes an UPDATE when a column value
\* differs from the loaded one, and an UPDATE sets updated_at anew
CommitRow(loaded, assigned) ==
    IF assigned = loaded THEN loaded
    ELSE [assigned EXCEPT !.updated_at = loaded.updated_at + 1]

\* update_restaurant_settings
UpdateSettings ==
    \E slug \in Slugs, data \in SettingsPayloads :
        LET found == RestaurantBySlug(slug)
            k == CHOOSE k \in 1..Len(restaurants) : restaurants[k].slug = slug
        IN
        /\ result = Pending
        /\ found # <<>> => found[1].updated_at < MaxUpdates
        /\ request' = [route |-> "settings", slug |-> slug, data |-> data]
        /\ invoked' = NotInvoked
        /\ polish' = NotPolished
        /\ UNCHANGED <<reviews, gemini_key, imports, finisherVars, generatorVars>>
        /\ IF found = <<>>
           THEN /\ response' = ErrorResponse(404, "Restaurant not found")
                /\ UNCHANGED restaurants
           ELSE /\ restaurants' = [restaurants EXCEPT ![k] =
                                      CommitRow(@, ApplySettings(@, data))]
                /\ response' = [status |-> 200, success |-> TRUE,
                                message |-> "Settings updated successfully"]

\* the columns of a row that generate_review reads
Profile(row) == [f \in DOMAIN diner |-> row[f]]

\* the keyword and template lists a row can hold
SettingsProfiles ==
    {[Profile(base) EXCEPT !.seo_keywords = keywords, !.custom_templates = templates] :
        base \in {diner, faulty},
        keywords \in {diner.seo_keywords, faulty.seo_keywords}
                       \cup {d.seo_keywords :
                               d \in {q \in SettingsPayloads : "seo_keywords" \in DOMAIN q}},
        templates \in {diner.custom_templates, faulty.custom_templates}
                        \cup {d.templates :
                                d \in {q \in SettingsPayloads : "templates" \in DOMAIN q}}}

\* generate_review on those rows, computed once
SettingsGenerated ==
    [profile \in SettingsProfiles |-> generate_review(profile, 5, Burger, DateNight)]

\* the generate_review call that follows an update, on the stored row of
\* the restaurant updated
GenerateStored ==
    \E k \in 1..Len(restaurants) :
        LET restaurant == Profile(restaurants[k]) IN
        /\ result = Pending
        /\ request.route = "settings" /\ request.slug = restaurants[k].slug
        /\ result' \in SettingsGenerated[restaurant]
        /\ call' = Call(restaurant, 5, Burger, DateNight)
        /\ UNCHANGED <<banks, finisherVars, appVars>>

SettingsInit ==
    /\ restaurants = <<WithSettings(diner), WithSettings(faulty)>>
    /\ reviews = <<>>
    /\ gemini_key = FALSE
    /\ request = [route |-> "none"]
    /\ invoked = NotInvoked
    /\ polish = NotPolished
    /\ response = [status |-> 0]
    /\ imports = NoImports
    /\ text = <<>> /\ prev = <<>> /\ passes = 0
    /\ call = Call(imported, 5, NoText, NoText)
    /\ result = Pending
    /\ banks = NoBanks

SettingsNext == UpdateSettings \/ GenerateStored

SettingsSpec == SettingsInit /\ [][SettingsNext]_vars

----------------------------------------------------------------------------
(* Restaurant import: POST /api/create-restaurant (app.py, models.py,      *)
(* google_places.py).  Requests are served concurrently: each one reads    *)
(* the table (line 491), asks the places service, and commits (line 525)   *)
(* in a transaction of its own, so another request's commit can fall       *)
(* between its read and its commit.                                        *)

\* the place_id of a request: absent or empty, or one of three places
PlaceIds == {"", "place-a", "place-b", "place-c"}

MockName == <<"Mock", " ", "Restaurant", " ", "(No", " ", "API", " ", "Key)">>

\* the names the Places API reports; place-b carries the name of a sample row
GoogleNames ==
    ("place-a" :> <<"Corner", " ", "Cafe">>) @@ ("place-b" :> diner.name)
    @@ ("place-c" :> <<"Le", " ", "Bistro">>)

\* _mock_restaurant_details (google_places.py:278-301): the columns read below
_mock_restaurant_details(place_id) == [google_place_id |-> place_id, name |-> MockName]

\* _extract_detailed_place_data (google_places.py:93-135) on the API's answer
_extract_detailed_place_data(place_id) ==
    [google_place_id |-> place_id, name |-> GoogleNames[place_id]]

\* get_restaurant_details (google_places.py:55-80): the mock details without
\* a client or when the API call raises, the extracted details otherwise
get_restaurant_details(place_id) ==
    {_mock_restaurant_details(place_id), _extract_detailed_place_data(place_id)}

\* models.py:119-120 on the names above: lower-case, drop what is neither a
\* word character, whitespace nor '-', turn runs of '-' and whitespace into
\* one '-', strip '-'
SlugOf ==
    (<<"Corner", " ", "Cafe">> :> "corner-cafe")
    @@ (diner.name :> "joes-diner")
    @@ (<<"Le", " ", "Bistro">> :> "le-bistro")
    @@ (MockName :> "mock-restaurant-no-api-key")

\* Restaurant.create_from_google_places: the columns read below
create_from_google_places(places_data) ==
    [google_place_id |-> places_data.google_place_id,
     name |-> places_data.name,
     slug |-> SlugOf[places_data.name]]

\* the google_place_id column of a row; the sample rows carry none (NULL)
PlaceIdOf(row) == IF "google_place_id" \in DOMAIN row THEN row.google_place_id ELSE ""

\* Restaurant.query.filter_by(google_place_id=...).first() finds a row
PlaceStored(place_id) ==
    \E k \in 1..Len(restaurants) : PlaceIdOf(restaurants[k]) = place_id

\* the unique=True constraints of models.py:22 and 26: the INSERT of row
\* fails with IntegrityError
UniqueViolation(row) ==
    \/ PlaceStored(row.google_place_id)
    \/ \E k \in 1..Len(restaurants) : restaurants[k].slug = row.slug

\* lines 483-493: the request is parsed and the table is read.  place_taken
\* notes whether the place was stored when the table was last touched.
ImportCheck(i) ==
    /\ imports[i].pc = "idle"
    /\ \E place_id \in PlaceIds :
         imports' = [imports EXCEPT ![i] =
            IF place_id = ""
            THEN [pc |-> "done", place_id |-> place_id, place_taken |-> FALSE,
                  response |-> ErrorResponse(400, "Invalid restaurant data")]
            ELSE IF PlaceStored(place_id)
            THEN [pc |-> "done", place_id |-> place_id, place_taken |-> TRUE,
                  response |-> ErrorResponse(409, "Restaurant already exists in system")]
            ELSE [pc |-> "checked", place_id |-> place_id]]
    /\ UNCHANGED <<restaurants, reviews, gemini_key, request, invoked, polish, response,
                   finisherVars, generatorVars>>

\* lines 495-538: the details are fetched, the row is built and committed;
\* an IntegrityError is caught by line 535 and answered with 500
ImportCommit(i) ==
    /\ imports[i].pc = "checked"
    /\ \E detailed_data \in get_restaurant_details(imports[i].place_id) :
         LET row == create_from_google_places(detailed_data)
             id == Len(restaurants) + 1
             taken == PlaceStored(imports[i].place_id)
             Done(response_body) ==
                 imports' = [imports EXCEPT ![i] =
                    [pc |-> "done", place_id |-> imports[i].place_id,
                     place_taken |-> taken, response |-> response_body]]
         IN  IF UniqueViolation(row)
             THEN /\ Done(ErrorResponse(500, "IntegrityError"))
                  /\ UNCHANGED restaurants
             ELSE /\ restaurants' = Append(restaurants, [id |-> id] @@ row)
                  /\ Done([status |-> 200, success |-> TRUE, restaurant_id |-> id,
                           slug |-> row.slug])
    /\ UNCHANGED <<reviews, gemini_key, request, invoked, polish, response,
                   finisherVars, generatorVars>>

ImportInit ==
    /\ AppIdle
    /\ text = <<>> /\ prev = <<>> /\ passes = 0
    /\ call = Call(imported, 5, NoText, NoText)
    /\ result = Pending
    /\ banks = NoBanks

ImportNext == \E i \in 1..MaxImports : ImportCheck(i) \/ ImportCommit(i)

ImportSpec == ImportInit /\ [][ImportNext]_vars

----------------------------------------------------------------------------
(* Generator harness: one generate_review call on bounded arguments *)

HarnessRatings == 3..MaxRating

HarnessCalls ==
    {Call(r, n, d, a) : r \in {imported, bistro, express, tidy, plain, broken},
                        n \in HarnessRatings,
                        d \in {NoText, Tacos, FishTacos},
                        a \in {NoText, DateNight}}
    \cup {Call(pablos, 5, Margaritas, DateNight), Call(sophias, 4, Pasta, FamilyDinner),
          Call(imported, 5, BurgerFries, DateNight), Call(pablos, 4, TacosQuesoChips, DateNight),
          Call(bistro, 5, NoText, FamilyDinner),
          Call(wordy, 5, NoText, DateNight), Call(wordy, 5, Tacos, DateNight)}

\* __init__ (lines 12-70): the two banks kept on the generator object
InitialBanks == [cuisine_praise |-> cuisine_praise, closing_phrases |-> closing_phrases]

GeneratorInit ==
    /\ call \in HarnessCalls
    /\ result = Pending
    /\ banks = InitialBanks
    /\ text = <<>> /\ prev = <<>> /\ passes = 0
    /\ AppIdle

\* ProfileAfterCall writing the shuffled keyword list back to the restaurant
ProfileAfterShuffleInPlace(restaurant) ==
    LET keywords == restaurant.seo_keywords
        n == Len(keywords)
    IN  [restaurant EXCEPT !.seo_keywords = [i \in 1..n |-> keywords[n + 1 - i]]]

\* the restaurant object after a generate_review call: the call reads it
\* through get_seo_keywords and get_custom_templates, which decode the
\* stored JSON into fresh lists, shuffles a copy (lines 121-122) and
\* assigns to none of its attributes
ProfileAfterCall(restaurant) == restaurant

\* the banks after a generate_review call: lines 72-273 read self.cuisine_praise
\* and self.closing_phrases with dict.get and random.choice and assign to
\* neither
BanksAfterCall(b) == b

Generate ==
    /\ result = Pending
    /\ result' \in generate_review(call.restaurant, call.rating,
                                   call.favorite_dish, call.atmosphere)
    /\ call' = [call EXCEPT !.restaurant = ProfileAfterCall(call.restaurant)]
    /\ banks' = BanksAfterCall(banks)
    /\ UNCHANGED <<finisherVars, appVars>>

GeneratorNext == Generate

GeneratorSpec == GeneratorInit /\ [][GeneratorNext]_vars

----------------------------------------------------------------------------
(* Finisher harness: _enhance_review applied repeatedly to a bounded string *)

\* the atoms of the strings fed to the harness
FinisherAlphabet == {" ", "\t", ".", "!", "a", "A"}

RECURSIVE StringsUpTo(_)
StringsUpTo(n) ==
    IF n = 0 THEN {<<>>}
    ELSE LET shorter == StringsUpTo(n - 1) IN
         shorter \cup {Append(s, c) : s \in {t \in shorter : Len(t) = n - 1},
                                      c \in FinisherAlphabet}

FinisherInit ==
    /\ text \in StringsUpTo(MaxLen)
    /\ prev = <<>>
    /\ passes = 0
    /\ call = Call(imported, 5, NoText, NoText)
    /\ result = Pending
    /\ banks = NoBanks
    /\ AppIdle

Finish ==
    /\ passes < MaxPasses
    /\ prev' = text
    /\ text' = _enhance_review(text)
    /\ passes' = passes + 1
    /\ UNCHANGED <<generatorVars, appVars>>

FinisherNext == Finish

FinisherSpec == FinisherInit /\ [][FinisherNext]_vars

----------------------------------------------------------------------------
(* Dish harness: _enhance_dish_description applied to a bounded dish name *)

\* the atoms of the dish names fed to the harness
DishAlphabet == {"tacos", "Burrito", "margaritas", "pasta", "fries", " "}

RECURSIVE DishesUpTo(_)
DishesUpTo(n) ==
    IF n = 0 THEN {<<>>}
    ELSE LET shorter == DishesUpTo(n - 1) IN
         shorter \cup {Append(s, c) : s \in {t \in shorter : Len(t) = n - 1},
                                      c \in DishAlphabet}

\* cuisines with a table (Mexican, Italian) and without one (Fusion)
DishCuisines == {<<"Mexican">>, <<"Italian">>, <<"Fusion">>}

DishInit ==
    /\ call \in {[dish |-> d, cuisine |-> c] : d \in DishesUpTo(MaxDishLen), c \in DishCuisines}
    /\ result = Pending
    /\ banks = NoBanks
    /\ text = <<>> /\ prev = <<>> /\ passes = 0
    /\ AppIdle

EnhanceDish ==
    /\ result = Pending
    /\ result' \in {[raised |-> "none", enhanced |-> e] :
                       e \in _enhance_dish_description(call.dish, call.cuisine)}
    /\ UNCHANGED <<call, banks, finisherVars, appVars>>

DishNext == EnhanceDish

DishSpec == DishInit /\ [][DishNext]_vars

----------------------------------------------------------------------------
(* Variables harness: one call of _prepare_template_variables *)

\* keyword lists of zero, one, two and three entries, and one with a repeat
VariablesCalls ==
    {Call(r, 5, d, NoText) : r \in {imported, bistro, express, tidy, twins},
                             d \in {NoText, Tacos}}

VariablesInit ==
    /\ call \in VariablesCalls
    /\ result = Pending
    /\ banks = InitialBanks
    /\ text = <<>> /\ prev = <<>> /\ passes = 0
    /\ AppIdle

PrepareVariables ==
    /\ result = Pending
    /\ result' \in {[raised |-> "none", template_vars |-> v] :
                       v \in _prepare_template_variables(call.restaurant, call.rating,
                                                         call.favorite_dish, call.atmosphere)}
    /\ call' = [call EXCEPT !.restaurant = ProfileAfterCall(call.restaurant)]
    /\ banks' = BanksAfterCall(banks)
    /\ UNCHANGED <<finisherVars, appVars>>

VariablesNext == PrepareVariables

VariablesSpec == VariablesInit /\ [][VariablesNext]_vars

----------------------------------------------------------------------------
(* Properties of the finisher *)

\* C1: idempotent finishing - once _enhance_review has been applied to a
\* string, applying it again returns the same string.
IdempotentFinishing == passes >= 2 => text = prev

\* a second pass ran on the finished form of an input that started with
\* ". " and had whitespace before punctuation
IdempotentFinishingWitness ==
    /\ passes = 2
    /\ text = prev
    /\ text = <<"A", "!">>

\* the positions at which a segment of s.split(". ") starts (a position
\* past the end is the start of an empty last segment)
SegmentStarts(s) ==
    {1} \cup {i + 2 : i \in {j \in 1..(Len(s) - 1) : s[j] = "." /\ s[j + 1] = " "}}

\* C23: finisher normal form - the output of _enhance_review has no run of
\* two or more whitespace characters, no leading or trailing whitespace, no
\* whitespace immediately before '.', '!' or '?', and every segment of the
\* output split on ". " starts with a character that is its own upper-case
\* form.
FinisherNormalForm ==
    passes >= 1 =>
        /\ \A i \in 1..(Len(text) - 1) : ~(IsSpace(text[i]) /\ IsSpace(text[i + 1]))
        /\ Len(text) > 0 => ~IsSpace(text[1]) /\ ~IsSpace(text[Len(text)])
        /\ \A i \in 1..(Len(text) - 1) :
              ~(IsSpace(text[i]) /\ text[i + 1] \in {".", "!", "?"})
        /\ \A i \in SegmentStarts(text) :
              (i <= Len(text) /\ ~(text[i] = "." /\ i < Len(text) /\ text[i + 1] = " "))
                  => \A p \in UpperPairs : p[1] # text[i]

\* one pass over an input with leading whitespace, a lower-case start and a
\* whitespace run before '!'
FinisherNormalFormWitness ==
    /\ passes = 1
    /\ prev = <<" ", "a", "\t", " ", "!">>
    /\ text = <<"A", "!">>

\* one pass over an input of two segments
FinisherTwoSegments ==
    /\ passes = 1
    /\ prev = <<"a", ".", " ", "a">>
    /\ text = <<"A", ".", " ", "A", "!">>

----------------------------------------------------------------------------
(* Properties of generate_review *)

Returned == result # Pending /\ result.raised = "none"

RecordKeys ==
    {"raised", "review", "word_count", "seo_count", "seo_keywords",
     "readability_score", "template_used"}

\* the positions at which a whitespace-separated token of s starts
TokenStarts(s) == {i \in 1..Len(s) : ~IsSpace(s[i]) /\ (i = 1 \/ IsSpace(s[i - 1]))}

\* k is a substring of t when letter case is ignored
InIgnoringCase(k, t) == Contains(LowerText(k), LowerText(t))

\* the elements of list at the positions in keep, in list order
Sublist(list, keep) ==
    LET nth(j) == CHOOSE i \in keep : Cardinality({h \in keep : h < i}) = j - 1
    IN  [j \in 1..Cardinality(keep) |-> list[nth(j)]]

\* C2: terminal punctuation - the review text of every record returned by
\* generate_review ends with '.', '!' or '?'.
TerminalPunctuation ==
    Returned => /\ Len(result.review) > 0
                /\ result.review[Len(result.review)] \in {".", "!", "?"}

\* a template that ends in a placeholder was filled and '!' was appended
TerminalPunctuationWitness ==
    /\ Returned
    /\ call.restaurant = tidy /\ result.template_used = 1
    /\ SubSeq(result.review, Len(result.review) - 1, Len(result.review)) = <<"night", "!">>

\* C4: keyword match - seo_keywords is the sub-list of the restaurant's
\* keyword list, in its stored order, of the keywords that are
\* case-insensitive substrings of the review, and seo_count is its length.
KeywordMatchCorrectness ==
    Returned =>
        LET K == call.restaurant.seo_keywords
            matched == {i \in 1..Len(K) : InIgnoringCase(K[i], result.review)}
        IN  /\ result.seo_keywords = Sublist(K, matched)
            /\ result.seo_count = Cardinality(matched)

\* of three keywords the second and third are found, the third having been
\* drawn first by the shuffle and capitalized at the start of the text
KeywordMatchWitness ==
    /\ Returned
    /\ call.restaurant = tidy
    /\ result.review[1] = "Late"
    /\ result.seo_keywords = << <<"amazing">>, <<"late", " ", "night">> >>
    /\ result.seo_count = 2

\* the template has a {rating} placeholder
UsesRating(template) ==
    \E i \in 1..(Len(template) - 2) :
        SubSeq(template, i, i + 2) = <<"{", "rating", "}">>

TemplateModeNeverFails ==
    (result # Pending /\ call.restaurant.custom_templates # <<>>) => result.raised = "none"

\* C10: totality on the default templates - with no custom templates
\* generate_review returns a complete, non-empty record for ratings 4 and
\* 5, whatever the tier, cuisine, keyword list, occasion and dish string.
DefaultTemplateTotality ==
    (result # Pending /\ call.restaurant.custom_templates = <<>> /\ call.rating \in {4, 5}) =>
        /\ result.raised = "none"
        /\ DOMAIN result = RecordKeys
        /\ result.review # <<>>
        /\ result.template_used \in 1..3

\* an unrecognized tier, an empty dish and an empty occasion gave a record
DefaultTemplateTotalityWitness ==
    /\ Returned
    /\ call.restaurant = bistro
    /\ call.rating = 4
    /\ call.favorite_dish = <<>> /\ call.atmosphere = <<>>
    /\ result.template_used = 3

\* the built-in templates of a tier, those of 'casual' for any other tier
BuiltInTemplates(tier) ==
    IF tier \in DOMAIN DefaultTemplateTable THEN DefaultTemplateTable[tier]
    ELSE DefaultTemplateTable[<<"casual">>]

\* the words of a template that are not inside a replacement field, in
\* lower case
LiteralWords(template) ==
    {Lower(template[i]) : i \in
        {j \in 1..Len(template) :
            /\ template[j] \notin {" ", "\t", ".", "!", "?", ",", "{", "}"}
            /\ ~(j > 1 /\ template[j - 1] = "{")}}

\* every literal word of template is a word of the returned review
FilledFrom(template) ==
    LiteralWords(template) \subseteq {Lower(result.review[i]) : i \in 1..Len(result.review)}

\* C11: template source - with no custom templates the template filled is
\* a built-in default of the restaurant's tier ('casual' for an unknown
\* tier); with custom templates it is one of the restaurant's own and no
\* default is used.
TemplateSource ==
    Returned =>
        LET own == call.restaurant.custom_templates
            defaults == BuiltInTemplates(call.restaurant.restaurant_type)
            source == IF own = <<>> THEN defaults ELSE own
        IN  /\ result.template_used \in 1..Len(source)
            /\ FilledFrom(source[result.template_used])
            /\ own # <<>> => \A i \in 1..Len(defaults) : ~FilledFrom(defaults[i])

\* the second of a restaurant's own two templates was filled
TemplateSourceWitness ==
    /\ Returned
    /\ call.restaurant = tidy
    /\ result.template_used = 2
    /\ FilledFrom(tidy.custom_templates[2])
    /\ ~FilledFrom(tidy.custom_templates[1])

\* the template has a {dish} or {favorite_dish} placeholder
UsesDish(template) ==
    \E i \in 1..(Len(template) - 2) :
        /\ template[i] = "{" /\ template[i + 2] = "}"
        /\ template[i + 1] \in {"dish", "favorite_dish"}

\* the dish names of a favorite-dish string: its comma-separated segments,
\* trimmed, without the empty ones, in order
DishNames(dish) ==
    LET commas == {i \in 1..Len(dish) : dish[i] = ","}
        bounds == {0, Len(dish) + 1} \cup commas
        segment(lo) ==
            LET hi == CHOOSE h \in bounds : h > lo /\ \A g \in bounds : g > lo => h <= g
            IN  Strip(SubSeq(dish, lo + 1, hi - 1))
        starts == {lo \in bounds : lo <= Len(dish) /\ segment(lo) # <<>>}
    IN  Sublist([i \in 1..(Len(dish) + 1) |-> segment(i - 1)], {lo + 1 : lo \in starts})

\* "a", "a and b", "a, b, and c"
RECURSIVE CommaSeries(_)
CommaSeries(names) ==
    IF Len(names) = 1 THEN <<"and", " ">> \o names[1]
    ELSE Head(names) \o <<",", " ">> \o CommaSeries(Tail(names))

JoinDishes(names) ==
    IF names = <<>> THEN <<>>
    ELSE IF Len(names) = 1 THEN names[1]
    ELSE IF Len(names) = 2 THEN names[1] \o <<" ", "and", " ">> \o names[2]
    ELSE CommaSeries(names)

\* C15: dish joining - the review contains the supplied dishes in their
\* order: one dish as given, two joined by "and", three or more as a comma
\* series with "and" before the last.
DishJoining ==
    (/\ Returned
     /\ DishNames(call.favorite_dish) # <<>>
     /\ UsesDish(TemplatesOf(call.restaurant)[result.template_used])) =>
        InIgnoringCase(JoinDishes(DishNames(call.favorite_dish)), result.review)

\* every field of the restaurant, its templates included, is free of braces
NoBraces(restaurant) ==
    LET Free(t) == \A i \in 1..Len(t) : t[i] \notin {"{", "}"} IN
    /\ Free(restaurant.name) /\ Free(restaurant.cuisine)
    /\ Free(restaurant.location) /\ Free(restaurant.restaurant_type)
    /\ \A i \in 1..Len(restaurant.seo_keywords) : Free(restaurant.seo_keywords[i])
    /\ \A i \in 1..Len(restaurant.custom_templates) : Free(restaurant.custom_templates[i])

\* C16: fallback safety - with an empty dish string and a recognized
\* occasion, for a restaurant whose fields contain no braces,
\* generate_review returns non-empty text with no '{' or '}' in it that
\* ends with '.', '!' or '?'.
FallbackSafety ==
    (/\ result # Pending
     /\ call.favorite_dish = <<>>
     /\ call.atmosphere \in {DateNight, FamilyDinner}
     /\ NoBraces(call.restaurant)) =>
        /\ result.raised = "none"
        /\ result.review # <<>>
        /\ \A i \in 1..Len(result.review) : result.review[i] \notin {"{", "}"}
        /\ result.review[Len(result.review)] \in {".", "!", "?"}

\* the call of the example: no dish, "family dinner"
FallbackSafetyWitness ==
    /\ Returned
    /\ call = Call(bistro, 5, NoText, FamilyDinner)
    /\ \E i \in 1..(Len(result.review) - 2) :
          SubSeq(result.review, i, i + 2) = <<"amazing", " ", "was">>

SentenceRunStarts(s) ==
    {i \in 1..Len(s) : /\ s[i] \in {".", "!", "?"}
                       /\ (i = 1 \/ s[i - 1] \notin {".", "!", "?"})}

\* C21: readability label - readability is 'Good' exactly when
\* word_count / max(sentence_count, 1) < 20 and 'Complex' otherwise, where
\* sentence_count is the number of maximal runs of '.', '!', '?' in the
\* final text.
ReadabilityLabel ==
    Returned =>
        LET sentence_count == Cardinality(SentenceRunStarts(result.review))
            divisor == IF sentence_count >= 1 THEN sentence_count ELSE 1
        IN  /\ result.readability_score \in {"Good", "Complex"}
            /\ result.readability_score = "Good" <=> result.word_count < 20 * divisor

\* one sentence of exactly twenty words is labelled Complex
ReadabilityLabelWitness ==
    /\ Returned
    /\ call.restaurant = wordy
    /\ result.word_count = 20
    /\ Cardinality(SentenceRunStarts(result.review)) = 1
    /\ result.readability_score = "Complex"

\* the rows <<key, renderings>> of the table of a cuisine, none without one
DishTable(cuisine) == IF cuisine \in DOMAIN enhancements THEN enhancements[cuisine] ELSE <<>>

\* the rows whose key is a substring of the lower-cased dish
MatchingRows(dish, cuisine) ==
    {i \in 1..Len(DishTable(cuisine)) : Contains(DishTable(cuisine)[i][1], LowerText(dish))}

\* C22: dish enhancement - the first key of the cuisine's table, in table
\* order, that is a substring of the lower-cased dish decides and the result
\* is one of that key's renderings; when no key matches or the cuisine has no
\* table, a dish of two or more words is returned unchanged and a dish of
\* fewer than two words comes back as "amazing " followed by the dish.
DishEnhancement ==
    Returned =>
        LET rows == DishTable(call.cuisine)
            matching == MatchingRows(call.dish, call.cuisine)
        IN  IF matching # {}
            THEN LET first == CHOOSE i \in matching : \A j \in matching : i <= j
                 IN  \E k \in 1..Len(rows[first][2]) : result.enhanced = rows[first][2][k]
            ELSE IF Cardinality(TokenStarts(call.dish)) >= 2
            THEN result.enhanced = call.dish
            ELSE result.enhanced = <<"amazing", " ">> \o call.dish

\* a dish naming two keys of the Mexican table, the later key first
DishEnhancementWitness ==
    /\ Returned
    /\ call.cuisine = <<"Mexican">>
    /\ call.dish = <<"Burrito", " ", "tacos">>
    /\ result.enhanced = <<"authentic", " ", "tacos">>

\* C24: SEO placeholders - with keyword list K, seo_keyword_1 and
\* seo_keyword_2 are elements of K when K is non-empty, come from two
\* different positions of K when K has at least two entries, are the same
\* single keyword when K has exactly one entry, and are the cuisine-based
\* fallback phrases "great <cuisine> restaurant" and "<cuisine> food" when K
\* is empty.
SeoPlaceholders ==
    Returned =>
        LET K == call.restaurant.seo_keywords
            first == result.template_vars.seo_keyword_1
            second == result.template_vars.seo_keyword_2
            cuisine == LowerText(call.restaurant.cuisine)
        IN  /\ Len(K) >= 1 => /\ \E p \in 1..Len(K) : first = K[p]
                              /\ \E q \in 1..Len(K) : second = K[q]
            /\ Len(K) >= 2 => \E p, q \in 1..Len(K) : p # q /\ first = K[p] /\ second = K[q]
            /\ Len(K) = 1 => first = K[1] /\ second = K[1]
            /\ Len(K) = 0 => /\ first = <<"great", " ">> \o cuisine \o <<" ", "restaurant">>
                             /\ second = cuisine \o <<" ", "food">>

\* three keywords, the third and the first drawn in that order
SeoPlaceholdersWitness ==
    /\ Returned
    /\ call.restaurant = tidy
    /\ result.template_vars.seo_keyword_1 = <<"late", " ", "night">>
    /\ result.template_vars.seo_keyword_2 = <<"street", " ", "tacos">>

\* no keywords: the fallback phrases of the default cuisine
SeoPlaceholdersFallback ==
    /\ Returned
    /\ call.restaurant = imported
    /\ result.template_vars.seo_keyword_1 = <<"great", " ", "restaurant", " ", "restaurant">>
    /\ result.template_vars.seo_keyword_2 = <<"restaurant", " ", "food">>

----------------------------------------------------------------------------
(* Properties of the request handlers *)

Stored == {reviews[i] : i \in 1..Len(reviews)}

\* C3: word count consistency - word_count is the number of
\* whitespace-separated tokens of the review text of the same record, in
\* every record generate_review returns and in every success response of
\* /generate-review, polished or not.
WordCountConsistency ==
    /\ Returned => result.word_count = Cardinality(TokenStarts(result.review))
    /\ (invoked.called /\ invoked.result.raised = "none") =>
          invoked.result.word_count = Cardinality(TokenStarts(invoked.result.review))
    /\ (request.route = "generate-review" /\ response.status = 200) =>
          response.word_count = Cardinality(TokenStarts(response.review))

\* a polished response whose text has another word count than the
\* generated text it replaced
WordCountWitness ==
    /\ request.route = "generate-review" /\ response.status = 200
    /\ response.ai_polished
    /\ Len(response.review) > 0 /\ response.review[1] = "Great"
    /\ response.word_count = 5
    /\ invoked.result.word_count = 11

\* C5: rating gate - generate_review is invoked only with rating 4 or 5,
\* and a request with rating 1, 2 or 3 never yields a generated review.
RatingGate ==
    invoked.called => invoked.call.rating \in {4, 5}

\* C7: every stored review is public exactly when its rating is 4 or 5 and
\* private with requires_followup exactly when its rating is 1, 2 or 3; no
\* stored review is public with a rating below 4.
ReviewTypeByRating ==
    \A row \in Stored :
        /\ row.review_type = "public" <=> row.rating \in {4, 5}
        /\ (row.review_type = "private" /\ row.requires_followup) <=> row.rating \in {1, 2, 3}
        /\ ~(row.review_type = "public" /\ row.rating < 4)

\* C8: every stored review has a rating in 1..5; a submission with a rating
\* outside 1..5 stores nothing.
StoredRatingInRange ==
    \A row \in Stored : row.rating \in 1..5

Succeeded == request.route = "generate-review" /\ response.status = 200

\* C29: response consistency of /generate-review - in a success response
\* every listed keyword is a case-insensitive substring of the returned
\* review, every restaurant keyword contained in the returned review is
\* listed, and seo_count is the length of the list, also when the polisher
\* replaced the generated text; original_review is non-null exactly when
\* ai_polished is true.
ResponseConsistency ==
    Succeeded =>
        LET keywords == get_seo_keywords(invoked.call.restaurant)
            listed == {response.seo_keywords[k] : k \in 1..Len(response.seo_keywords)}
        IN  /\ \A kw \in listed : InIgnoringCase(kw, response.review)
            /\ \A k \in 1..Len(keywords) :
                  InIgnoringCase(keywords[k], response.review) => keywords[k] \in listed
            /\ response.seo_count = Len(response.seo_keywords)
            /\ response.original_review # <<>> <=> response.ai_polished

\* the second half of C29 alone: original_review goes with ai_polished
OriginalWithPolished ==
    Succeeded => (response.original_review # <<>> <=> response.ai_polished)

\* the positions of the rows a respond request addresses: the review of
\* that id, if it belongs to the restaurant of that slug
Addressed(req) ==
    {k \in 1..Len(reviews) :
        /\ reviews[k].id = req.review_id
        /\ \E j \in 1..Len(restaurants) : /\ restaurants[j].slug = req.slug
                                          /\ restaurants[j].id = reviews[k].restaurant_id}

\* what holds of every step whatever is written to the addressed row: the
\* table keeps its length, the rows not addressed and the restaurants stay
\* as they are, a request that addresses no row is answered 404 and changes
\* nothing, a set flag stays set, and a request for a row whose flag is set
\* changes nothing
FollowUpFrame ==
    /\ request'.route = "respond" =>
          /\ restaurants' = restaurants
          /\ Len(reviews') = Len(reviews)
          /\ \A k \in 1..Len(reviews) \ Addressed(request') : reviews'[k] = reviews[k]
          /\ Addressed(request') = {} => response'.status = 404 /\ reviews' = reviews
          /\ \A k \in Addressed(request') :
                reviews[k].followup_completed => reviews'[k] = reviews[k]
    /\ \A k \in 1..Len(reviews) :
          reviews[k].followup_completed =>
              k <= Len(reviews') /\ reviews'[k].followup_completed

\* C27 as stated: respond_to_feedback changes only the followup_completed
\* field of the one review addressed, and only when that review belongs to
\* the restaurant named in the URL (otherwise it answers 404 and changes
\* nothing); once followup_completed is true it remains true, and repeating
\* the request has no further effect.
FollowUpOnlyFlag ==
    [][/\ FollowUpFrame
       /\ request'.route = "respond" =>
             \A k \in Addressed(request') :
                reviews'[k] = [reviews[k] EXCEPT !.followup_completed = TRUE]]_vars

\* C27: follow-up flag - respond_to_feedback changes only the
\* followup_completed field of the one review addressed and, when that field
\* changes, the row's updated_at timestamp, and only when that review belongs
\* to the restaurant named in the URL (otherwise it answers 404 and changes
\* nothing); once followup_completed is true it remains true in every later
\* state, and repeating the request has no further effect.
FollowUpFlag ==
    [][/\ FollowUpFrame
       /\ request'.route = "respond" =>
             \A k \in Addressed(request') :
                /\ reviews'[k].followup_completed
                /\ \A f \in DOMAIN reviews[k] \ {"followup_completed", "updated_at"} :
                      reviews'[k][f] = reviews[k][f]
                /\ DOMAIN reviews'[k] = DOMAIN reviews[k]
                /\ reviews'[k].updated_at # reviews[k].updated_at =>
                      ~reviews[k].followup_completed]_vars

\* the second of two feedbacks of one restaurant was marked; the first one
\* still waits
FollowUpFlagWitness ==
    /\ request.route = "respond" /\ response.status = 200
    /\ Len(reviews) >= 2
    /\ reviews[1].requires_followup /\ ~reviews[1].followup_completed
    /\ reviews[1].updated_at = 0
    /\ reviews[2].requires_followup /\ reviews[2].followup_completed
    /\ reviews[2].updated_at = 1
    /\ reviews[1].restaurant_id = reviews[2].restaurant_id

\* a request that names the review of another restaurant was answered 404
FollowUpRefused ==
    /\ request.route = "respond" /\ response.status = 404
    /\ request.slug = "joes-diner"
    /\ \E k \in 1..Len(reviews) : reviews[k].id = request.review_id

RestaurantIds == {restaurants[j].id : j \in 1..Len(restaurants)}

\* the counters of every restaurant add up
CountersAddUp ==
    \A r \in RestaurantIds :
        /\ positive_reviews(r) + negative_feedback(r) = total_reviews(r)
        /\ pending_followups(r) <= negative_feedback(r)

\* the pending_followups of restaurant r after the step
PendingAfter(r) ==
    Cardinality({k \in 1..Len(reviews') : /\ reviews'[k].restaurant_id = r
                                          /\ reviews'[k].requires_followup
                                          /\ ~reviews'[k].followup_completed})

\* C28: dashboard counters - in every state reachable by submissions and
\* follow-up responses, for each restaurant positive_reviews +
\* negative_feedback = total_reviews and pending_followups <=
\* negative_feedback; a negative submission raises pending_followups by one
\* and a first response to that feedback lowers it by one.
DashboardCounters ==
    /\ CountersAddUp
    /\ [][/\ CountersAddUp'
          /\ (/\ request'.route = "submit-review"
              /\ Len(reviews') = Len(reviews) + 1
              /\ reviews'[Len(reviews')].rating <= 3) =>
                 LET r == reviews'[Len(reviews')].restaurant_id
                 IN  PendingAfter(r) = pending_followups(r) + 1
          /\ (request'.route = "respond" /\ response'.status = 200) =>
                 \A k \in Addressed(request') :
                    (reviews[k].requires_followup /\ ~reviews[k].followup_completed) =>
                        PendingAfter(reviews[k].restaurant_id)
                            = pending_followups(reviews[k].restaurant_id) - 1]_vars

\* the dashboard shows one feedback answered and one waiting, next to a review
DashboardCountersWitness ==
    /\ request.route = "dashboard" /\ response.status = 200
    /\ response.total_reviews = 3
    /\ response.positive_reviews = 1
    /\ response.negative_feedback = 2
    /\ response.pending_followups = 1

\* the position of the row a settings request names, 0 if there is none
Named(req) ==
    IF \E k \in 1..Len(restaurants) : restaurants[k].slug = req.slug
    THEN CHOOSE k \in 1..Len(restaurants) : restaurants[k].slug = req.slug
    ELSE 0

\* the payload key that carries a column: 'templates' for custom_templates
KeyOf(column) == IF column = "custom_templates" THEN "templates" ELSE column

\* the columns update_restaurant_settings assigns
SettingsColumns ==
    {"specialties", "seo_keywords", "custom_templates", "brand_voice",
     "auto_sms_enabled", "sms_delay_hours"}

\* what holds of every settings request whichever columns it may write:
\* the other rows and the reviews stay as they are, and an unknown slug is
\* answered 404 and changes nothing
SettingsOthersKept ==
    request'.route = "settings" =>
        /\ reviews' = reviews
        /\ Len(restaurants') = Len(restaurants)
        /\ \A k \in 1..Len(restaurants) \ {Named(request')} : restaurants'[k] = restaurants[k]
        /\ Named(request') = 0 => response'.status = 404 /\ restaurants' = restaurants

\* the generate_review call on a stored row used the stored lists: the
\* template filled is one of the row's own, or a default of its tier when the
\* row has none, and the keywords reported are those of the stored list that
\* the text contains
GeneratedFromStored ==
    Returned =>
        \E k \in 1..Len(restaurants) :
            LET row == restaurants[k]
                source == IF row.custom_templates = <<>>
                          THEN BuiltInTemplates(row.restaurant_type)
                          ELSE row.custom_templates
                listed == {result.seo_keywords[j] : j \in 1..Len(result.seo_keywords)}
            IN  /\ row.id = call.restaurant.id
                /\ result.template_used \in 1..Len(source)
                /\ FilledFrom(source[result.template_used])
                /\ listed = {row.seo_keywords[j] : j \in
                               {i \in 1..Len(row.seo_keywords) :
                                   InIgnoringCase(row.seo_keywords[i], result.review)}}

Answered == {i \in 1..MaxImports : imports[i].pc = "done"}

\* C25: restaurant import uniqueness - after any interleaving of
\* /api/create-restaurant requests, no two stored restaurants share a
\* google_place_id, and every request naming a place_id that is already
\* stored is answered with the 409 'Restaurant already exists in system'
\* error and stores nothing.
ImportUniqueness ==
    /\ \A j, k \in 1..Len(restaurants) :
          (j # k /\ PlaceIdOf(restaurants[j]) # "") =>
              PlaceIdOf(restaurants[j]) # PlaceIdOf(restaurants[k])
    /\ \A i \in Answered :
          imports[i].place_taken =>
              imports[i].response = ErrorResponse(409, "Restaurant already exists in system")

\* the first conjunct of C25 alone: no two rows share a google_place_id
PlaceIdsDistinct ==
    \A j, k \in 1..Len(restaurants) :
        (j # k /\ PlaceIdOf(restaurants[j]) # "") =>
            PlaceIdOf(restaurants[j]) # PlaceIdOf(restaurants[k])

\* a request for a stored place was answered 409
ImportRefused ==
    \E i \in Answered : imports[i].response.status = 409

\* C26: import availability - a request whose place_id is not yet stored and
\* whose details are retrievable stores exactly one new restaurant and
\* answers success, whatever restaurants already exist.
ImportAvailability ==
    \A i \in Answered :
        (imports[i].place_id # "" /\ ~imports[i].place_taken) =>
            /\ imports[i].response.status = 200
            /\ Cardinality({k \in 1..Len(restaurants) :
                              PlaceIdOf(restaurants[k]) = imports[i].place_id}) = 1

\* two places with different names were both stored
ImportedTwo ==
    /\ Len(restaurants) = 4
    /\ \A i \in 1..MaxImports : i \in Answered /\ imports[i].response.status = 200

\* C12: polisher failure contract - when polishing cannot be done (no
\* client, or the external call or the handling of its result raises),
\* polish_review raises nothing and returns the input text unchanged with
\* polished = False and cost_estimate = 0.
PolisherFailureContract ==
    (polish.called /\ (~polish.has_client \/ polish.gemini # "none")) =>
        /\ Succeeded
        /\ response.review = invoked.result.review
        /\ response.ai_polished = FALSE
        /\ response.cost_estimate = 0
        /\ response.original_review = <<>>

\* the client exists and the external call raised
PolisherFailureWitness ==
    /\ polish.called /\ polish.has_client /\ polish.gemini = "Exception"
    /\ Succeeded
    /\ response.review = invoked.result.review
    /\ response.review # <<>>
    /\ ~response.ai_polished

\* tenths added to the uniqueness score by a detail field
DetailBonus(detail) == IF detail # <<>> THEN 2 ELSE 0

\* C13: uniqueness score - the uniqueness_score delivered for a generated
\* review is 0.6, plus 0.2 if specialDetail is supplied, plus 0.2 if
\* standoutDetail is supplied (in tenths: 6, 8 or 10).
UniquenessScore ==
    Succeeded =>
        response.uniqueness_score =
            6 + DetailBonus(request.special_detail) + DetailBonus(request.standout_detail)

\* C14: personalized flag - 'personalized' is true if and only if at least
\* one of special_detail and standout_detail was supplied in the request.
PersonalizedFlag ==
    Succeeded =>
        (response.personalized <=>
            (request.special_detail # <<>> \/ request.standout_detail # <<>>))

\* C17: no partial results - when generate_review raises during a request,
\* that request stores no Review row and returns no review text: the
\* reviews table is as it was before the request.
NoPartialResults ==
    [][(invoked'.called /\ invoked'.result.raised # "none") =>
            /\ reviews' = reviews
            /\ response'.status = 500
            /\ "review" \notin DOMAIN response']_vars

\* a submission without final text whose generation raised KeyError
NoPartialResultsWitness ==
    /\ request.route = "submit-review"
    /\ invoked.called /\ invoked.result.raised = "KeyError"
    /\ response.status = 500
    /\ reviews = <<>>

\* C19: caller-side validation - a handler invokes generate_review only
\* after checking that the dish and the occasion are non-empty; a request
\* with an empty dish or occasion never reaches the generator.
CallerValidation ==
    invoked.called =>
        /\ invoked.call.favorite_dish # <<>>
        /\ invoked.call.atmosphere # <<>>

\* s without its leading and trailing whitespace
Trimmed(s) ==
    LET inked == {i \in 1..Len(s) : ~IsSpace(s[i])} IN
    IF inked = {} THEN <<>>
    ELSE SubSeq(s, CHOOSE i \in inked : \A j \in inked : i <= j,
                   CHOOSE i \in inked : \A j \in inked : i >= j)

\* C20: persistence of the final review - a public Review stored by
\* /submit-review holds the customer's final text, trimmed, when one was
\* supplied and a freshly generated review only when none was; its
\* word_count is the number of whitespace-separated tokens of the stored
\* text, and its rating, dish and occasion are those of the request.
PersistedFinalReview ==
    (/\ request.route = "submit-review"
     /\ response.status = 200
     /\ response.page = "Thank You!") =>
        LET row == reviews[Len(reviews)] IN
        /\ row.review_type = "public"
        /\ IF Trimmed(request.final_review) # <<>>
           THEN /\ row.generated_review = Trimmed(request.final_review)
                /\ ~invoked.called
           ELSE /\ invoked.called /\ invoked.result.raised = "none"
                /\ row.generated_review = invoked.result.review
        /\ row.word_count = Cardinality(TokenStarts(row.generated_review))
        /\ row.rating = request.rating
        /\ row.favorite_dish = Trimmed(request.favorite_dish_final)
        /\ row.atmosphere = Trimmed(request.atmosphere)

\* a final text sent with surrounding whitespace is stored trimmed, with
\* its two words counted
PersistedFinalReviewWitness ==
    /\ request.route = "submit-review" /\ response.status = 200
    /\ Len(reviews) = 1
    /\ request.final_review = LovedIt
    /\ reviews[1].generated_review = <<"Loved", " ", "it", ".">>
    /\ reviews[1].word_count = 2
    /\ reviews[1].favorite_dish = Burger
    /\ reviews[1].rating = 5

====
